---- MODULE Spec2Model ----
(***************************************************************************)
(* The relay engine of the gateway: the per-request pipeline of            *)
(* controller.Relay (validate, price, pre-consume, retry loop, refund)     *)
(* and the task pipeline of controller.RelayTask, with the retry policy    *)
(* of shouldRetry / shouldRetryTaskRelay and the channel selection of      *)
(* getChannel.  One request is followed from entry to return.              *)
(***************************************************************************)
EXTENDS Integers, Sequences, FiniteSets, TLC

\* ---------------------------------------------------------------- bounds
MaxRetryTimes == 2      \* common.RetryTimes ranges over 0..MaxRetryTimes
NumChannels   == 3      \* channel ids 1..NumChannels
MaxQuota      == 1      \* quota amounts and balances range over 0..MaxQuota

Channels == 1 .. NumChannels

\* HTTP statuses an upstream attempt may answer with: the ends of 2xx, the
\* statuses shouldRetry names, and others of 3xx, 4xx and 5xx
Statuses == {200, 299, 300, 307, 400, 401, 404, 408, 429, 500, 503, 504, 524}

RelayFormats == {"openai", "claude", "gemini", "openai_realtime"}

\* request bodies, and a body read to its end
Bodies == {"b1"}
Consumed == ""

\* ------------------------------------------------- JSON documents and paths
\* A JSON value is a record of its type and its content.  A string is the
\* sequence of its tokens, a path the sequence of its dot-separated parts.
Num(n)  == [t |-> "num", v |-> n]
Str(s)  == [t |-> "str", v |-> s]
Bool(b) == [t |-> "bool", v |-> b]
Null    == [t |-> "null", v |-> 0]
Arr(a)  == [t |-> "arr", v |-> a]
Obj(o)  == [t |-> "obj", v |-> o]

\* gjson.Result{}: the result of a path that does not exist
Missing == [t |-> "missing", v |-> 0]

\* an error returned by sjson
Failed == [t |-> "error", v |-> 0]

\* the empty string, which is no JSON text
Empty == [t |-> "empty", v |-> 0]

\* ------------------------------------------------------ types.NewAPIError
\* nil
Nil == [code |-> "nil", StatusCode |-> 0, skipRetry |-> FALSE, channelError |-> FALSE]

\* types.NewError(err, code, opts...): status 500 unless the cause carries one
NewError(code, skip) ==
    [code |-> code, StatusCode |-> 500, skipRetry |-> skip, channelError |-> FALSE]

IsChannelError(e)   == e # Nil /\ e.channelError
IsSkipRetryError(e) == e # Nil /\ e.skipRetry

\* the errors an upstream attempt (relay helper) can return
AttemptErrors ==
    [code : {"channel_response_error"}, StatusCode : Statuses,
     skipRetry : BOOLEAN, channelError : BOOLEAN]

\* dto.TaskError
NilTask == [StatusCode |-> 0, LocalError |-> FALSE]
TaskErrors == [StatusCode : Statuses, LocalError : BOOLEAN]

\* service.TaskErrorWrapperLocal(err, "get_channel_failed", 500)
TaskErrorWrapperLocal == [StatusCode |-> 500, LocalError |-> TRUE]

VARIABLES
    handler,                \* "Relay" or "RelayTask": the route's controller
    relayFormat,            \* types.RelayFormat of the request
    RetryTimes,             \* common.RetryTimes, fixed at start-up
    specific_channel_id,    \* TRUE iff the context holds "specific_channel_id"
    channel_id,             \* context key "channel_id" (set by the distributor)
    use_channel,            \* context key "use_channel"
    pc,                     \* position of the handler
    i,                      \* the loop index
    channel,                \* the channel returned by getChannel (0: none)
    newAPIError,            \* Relay's newAPIError
    taskErr,                \* RelayTask's taskErr
    retryTimes,             \* RelayTask's local retryTimes
    deferRefund,            \* TRUE once Relay registered the refund defer
    ShouldPreConsumedQuota, \* priceData.ShouldPreConsumedQuota
    FinalPreConsumedQuota,  \* relayInfo.FinalPreConsumedQuota
    userQuota,              \* the caller's balance
    preDebit,               \* amount debited by PreConsumeQuota (history)
    preConsumeCalls,        \* number of calls of service.PreConsumeQuota
    returnCalls,            \* number of calls of service.ReturnPreConsumedQuota
    dispatches,             \* number of upstream dispatches (helper calls)
    processed,              \* channel ids processChannelError was called with
    responses,              \* error responses written to the client
    retryLog,               \* the retry-path log line (<<>>: none emitted)
    ws,                     \* the websocket: "nil", "open" or "closed"
    stages,                 \* the stages Relay has run, in order
    requestBody,            \* the request body retained on the context
    Body,                   \* c.Request.Body: what is left to read
    sent,                   \* the body each helper call was handed
    flushed,                \* TRUE once response bytes went to the client
    pending,                \* the disable tasks handed to the worker pool
    exit,                   \* how the handler ended: "", "ok", "error", "panic"
    jsonData,               \* ApplyParamOverride's jsonData: the request body
    paramOverride,          \* ApplyParamOverride's paramOverride
    operations,             \* the operations tryParseOperations returned
    result,                 \* applyOperations' result: the current document
    opIdx,                  \* number of operations applyOperations is past
    ok,                     \* checkConditions' answer for the last operation
    overrideErr,            \* the error ApplyParamOverride returned ("": nil)
    ret,                    \* the bytes ApplyParamOverride returned
    before,                 \* result before the last operation (history)
    step,                   \* position of the override: "idle" outside it
    provider,               \* the adaptor's package: "ali" or "zhipu_4v"
    conversion,             \* the Convert...Request method that is called
    request,                \* the request handed to the conversion
    info,                   \* the *relaycommon.RelayInfo handed to it
    converted,              \* what the conversion returned: body and error
    convertPc,              \* position of the conversion: "idle" outside it
    req,                    \* RoundTrip's req: the path and the body
    apiLog,                 \* RoundTrip's l: the record being filled
    resp,                   \* what RoundTrip returned to its caller
    buf,                    \* the TeeReader's copy of the response read so far
    closed,                 \* rc.closed
    closeCalls,             \* number of calls of Close on the response body
    posted,                 \* the records PostProcess was called with
    api_log,                \* the rows created in table api_log
    forwarded,              \* number of calls of t.Transport.RoundTrip
    logPc                   \* position of the transport: "idle" outside it

vars == <<handler, relayFormat, RetryTimes, specific_channel_id, channel_id,
          use_channel, pc, i, channel, newAPIError, taskErr, retryTimes,
          deferRefund, ShouldPreConsumedQuota, FinalPreConsumedQuota,
          userQuota, preDebit, preConsumeCalls, returnCalls, dispatches,
          processed, responses, retryLog, ws, stages, requestBody, Body,
          sent, flushed, pending, exit, jsonData, paramOverride, operations,
          result, opIdx, ok, overrideErr, ret, before, step, provider,
          conversion, request, info, converted, convertPc, req, apiLog,
          resp, buf, closed, closeCalls, posted, api_log, forwarded, logPc>>

\* the configuration and the context prefix set by the middleware
config == <<handler, relayFormat, RetryTimes, specific_channel_id,
            requestBody>>
quota  == <<ShouldPreConsumedQuota, FinalPreConsumedQuota, userQuota,
            preDebit, preConsumeCalls, returnCalls, deferRefund>>
task   == <<taskErr, retryTimes>>
wire   == <<Body, sent, flushed>>
async  == <<pending>>

\* the state of a parameter override
override == <<jsonData, paramOverride, operations, result, opIdx, ok,
              overrideErr, ret, before, step>>

\* the state of an adaptor's conversion
convert == <<provider, conversion, request, info, converted, convertPc>>

\* the state of the logging transport
logging == <<req, apiLog, resp, buf, closed, closeCalls, posted, api_log,
             forwarded, logPc>>

\* a nil request
NilRequest ==
    [nil |-> TRUE, Model |-> <<>>, Stream |-> FALSE,
     EnableThinking |-> FALSE, TopP |-> 0]

\* no conversion is under way
ConvertIdle ==
    /\ provider = ""
    /\ conversion = ""
    /\ request = NilRequest
    /\ info = [IsStream |-> FALSE, RelayMode |-> ""]
    /\ converted = [body |-> "", err |-> ""]
    /\ convertPc = "idle"

\* no round trip is under way
LoggingIdle ==
    /\ req = [Path |-> "", Body |-> "nil"]
    /\ apiLog = [Req |-> "", Res |-> <<>>, Err |-> ""]
    /\ resp = "none"
    /\ buf = <<>>
    /\ closed = FALSE
    /\ closeCalls = 0
    /\ posted = <<>>
    /\ api_log = <<>>
    /\ forwarded = 0
    /\ logPc = "idle"

Init ==
    /\ handler \in {"Relay", "RelayTask"}
    /\ relayFormat \in (IF handler = "Relay" THEN RelayFormats ELSE {"task"})
    /\ RetryTimes \in 0 .. MaxRetryTimes
    /\ specific_channel_id \in BOOLEAN
    /\ channel_id = 1      \* the distributor's channel; the ids are interchangeable
    /\ use_channel = <<>>
    /\ pc = IF handler = "RelayTask" THEN "taskStart"
            ELSE IF relayFormat = "openai_realtime" THEN "upgrade"
            ELSE "validate"
    /\ i = 0
    /\ channel = 0
    /\ newAPIError = Nil
    /\ taskErr = NilTask
    /\ retryTimes = 0
    /\ deferRefund = FALSE
    /\ ShouldPreConsumedQuota = 0
    /\ FinalPreConsumedQuota = 0
    /\ userQuota \in 0 .. MaxQuota
    /\ preDebit = 0
    /\ preConsumeCalls = 0
    /\ returnCalls = 0
    /\ dispatches = 0
    /\ processed = <<>>
    /\ responses = <<>>
    /\ retryLog = <<>>
    /\ ws = "nil"
    /\ stages = <<>>
    /\ requestBody \in Bodies
    /\ Body = requestBody
    /\ sent = <<>>
    /\ flushed = FALSE
    /\ pending = {}
    /\ exit = ""
    /\ jsonData = Empty
    /\ paramOverride = Obj(<<>>)
    /\ operations = <<>>
    /\ result = Empty
    /\ opIdx = 0
    /\ ok = TRUE
    /\ overrideErr = ""
    /\ ret = Empty
    /\ before = Empty
    /\ step = "idle"
    /\ ConvertIdle
    /\ LoggingIdle

\* ------------------------------------------------------------ retry policy
\* shouldRetry without the exception for the upstream timeouts 504 and 524
shouldRetryNoTimeouts(openaiErr, budget, pinned) ==
    IF openaiErr = Nil THEN FALSE
    ELSE IF IsChannelError(openaiErr) THEN TRUE
    ELSE IF IsSkipRetryError(openaiErr) THEN FALSE
    ELSE IF budget <= 0 THEN FALSE
    ELSE IF pinned THEN FALSE
    ELSE IF openaiErr.StatusCode = 429 THEN TRUE
    ELSE IF openaiErr.StatusCode = 307 THEN TRUE
    ELSE IF openaiErr.StatusCode \div 100 = 5 THEN TRUE
    ELSE IF openaiErr.StatusCode = 400 THEN FALSE
    ELSE IF openaiErr.StatusCode = 408 THEN FALSE
    ELSE IF openaiErr.StatusCode \div 100 = 2 THEN FALSE
    ELSE TRUE

\* shouldRetry retrying only on the statuses it names (final default FALSE)
shouldRetryDefaultFalse(openaiErr, budget, pinned) ==
    IF openaiErr = Nil THEN FALSE
    ELSE IF IsChannelError(openaiErr) THEN TRUE
    ELSE IF IsSkipRetryError(openaiErr) THEN FALSE
    ELSE IF budget <= 0 THEN FALSE
    ELSE IF pinned THEN FALSE
    ELSE IF openaiErr.StatusCode = 429 THEN TRUE
    ELSE IF openaiErr.StatusCode = 307 THEN TRUE
    ELSE IF openaiErr.StatusCode \div 100 = 5
         THEN ~(openaiErr.StatusCode = 504 \/ openaiErr.StatusCode = 524)
    ELSE FALSE

\* shouldRetry(c, openaiErr, retryTimes); pinned: "specific_channel_id" is set
shouldRetry(openaiErr, budget, pinned) ==
    IF openaiErr = Nil THEN FALSE
    ELSE IF IsChannelError(openaiErr) THEN TRUE
    ELSE IF IsSkipRetryError(openaiErr) THEN FALSE
    ELSE IF budget <= 0 THEN FALSE
    ELSE IF pinned THEN FALSE
    ELSE IF openaiErr.StatusCode = 429 THEN TRUE
    ELSE IF openaiErr.StatusCode = 307 THEN TRUE
    ELSE IF openaiErr.StatusCode \div 100 = 5
         THEN ~(openaiErr.StatusCode = 504 \/ openaiErr.StatusCode = 524)
    ELSE IF openaiErr.StatusCode = 400 THEN FALSE
    ELSE IF openaiErr.StatusCode = 408 THEN FALSE
    ELSE IF openaiErr.StatusCode \div 100 = 2 THEN FALSE
    ELSE TRUE

\* shouldRetryTaskRelay(c, channelId, taskErr, retryTimes)
shouldRetryTaskRelay(err, budget, pinned) ==
    IF err = NilTask THEN FALSE
    ELSE IF budget <= 0 THEN FALSE
    ELSE IF pinned THEN FALSE
    ELSE IF err.StatusCode = 429 THEN TRUE
    ELSE IF err.StatusCode = 307 THEN TRUE
    ELSE IF err.StatusCode \div 100 = 5
         THEN ~(err.StatusCode = 504 \/ err.StatusCode = 524)
    ELSE IF err.StatusCode = 400 THEN FALSE
    ELSE IF err.StatusCode = 408 THEN FALSE
    ELSE IF err.LocalError THEN FALSE
    ELSE IF err.StatusCode \div 100 = 2 THEN FALSE
    ELSE TRUE

\* the loop running one time too many
LoopCondOneMore(k) == k <= RetryTimes + 1

\* the condition of Relay's loop: for i := 0; i <= common.RetryTimes; i++
LoopCond(k) == k <= RetryTimes

\* a loop that opens with the pre-consume
LoopBodyPreConsume == "preconsume"

\* where Relay's loop body starts: at getChannel, after the pre-consume
LoopBody == "getChannel"

\* a failed getChannel that falls through to the dispatch
GetChannelFailedDispatch == "dispatch"

\* where a failed getChannel leads: break, to the code after the loop
GetChannelFailedBreak == "afterLoop"

\* the task loop running one time too many
TaskLoopCondOneMore ==
    shouldRetryTaskRelay(taskErr, retryTimes, specific_channel_id) /\ i <= retryTimes

\* the condition of RelayTask's loop:
\*   shouldRetryTaskRelay(c, channelId, taskErr, retryTimes) && i < retryTimes
TaskLoopCond ==
    shouldRetryTaskRelay(taskErr, retryTimes, specific_channel_id) /\ i < retryTimes

\* --------------------------------------------------------- channel selector
\* addUsedChannel(c, channelId): ids are kept as their decimal strings, which
\* name the ids one to one
addUsedChannel(list, id) == Append(list, id)

Tried == {use_channel[k] : k \in 1 .. Len(use_channel)}

\* model.CacheGetRandomSatisfiedChannel: an error, no channel (0), or a channel
\* of the index that this request has not tried yet
CacheGetRandomSatisfiedChannel ==
    {[channel |-> 0, err |-> TRUE], [channel |-> 0, err |-> FALSE]}
      \cup {[channel |-> ch, err |-> FALSE] : ch \in Channels \ Tried}

\* getChannel(c, group, originalModel, retryCount): the outcomes, each the
\* channel returned (0: nil), the error, and the context's channel_id after
getChannel(retryCount) ==
    IF retryCount = 0
    THEN {[channel |-> channel_id, err |-> Nil, ctx |-> channel_id]}
    ELSE LET failed == [channel |-> 0,
                        err |-> NewError("get_channel_failed", TRUE),
                        ctx |-> channel_id]
         IN  UNION {
               IF r.err \/ r.channel = 0 THEN {failed}
               ELSE \* middleware.SetupContextForSelectedChannel: sets the
                    \* context, or fails on a channel disabled meanwhile
                    {[channel |-> r.channel, err |-> Nil, ctx |-> r.channel],
                     failed}
               : r \in CacheGetRandomSatisfiedChannel }

\* --------------------------------------------------------- quota accountant
\* service.PreConsumeQuota(c, Q, relayInfo) on a balance: the outcomes
PreConsumeQuota(Q, balance) ==
    {[err |-> NewError("pre_consume_failed", FALSE),
      final |-> 0, balance |-> balance]}
    \cup
    (IF Q <= 0 THEN {[err |-> Nil, final |-> 0, balance |-> balance]}
     ELSE IF balance < Q
          THEN {[err |-> NewError("insufficient_user_quota", TRUE),
                 final |-> 0, balance |-> balance]}
          ELSE {[err |-> Nil, final |-> Q, balance |-> balance - Q]})

\* a refund on every return
RefundAlways(err) == deferRefund /\ FinalPreConsumedQuota # 0

\* a refund defer registered at entry, without the test of the amount
RefundOnAnyError(err) == err # Nil

\* the condition of Relay's deferred refund
RefundDue(err) == deferRefund /\ err # Nil /\ FinalPreConsumedQuota # 0

\* the error response of Relay's first deferred function
ErrorResponse(err) ==
    [envelope  |-> CASE relayFormat = "openai_realtime" -> "realtime"
                     [] relayFormat = "claude" -> "claude"
                     [] OTHER -> "openai",
     status    |-> err.StatusCode,
     code      |-> err.code,
     requestId |-> TRUE]

\* Relay returns with newAPIError = err: its deferred functions run, last
\* registered first (the refund, the error response, then ws.Close)
Return(err, how) ==
    /\ pc' = "done"
    /\ exit' = how
    /\ newAPIError' = err
    /\ IF RefundDue(err)
       THEN \* service.ReturnPreConsumedQuota(c, relayInfo)
            /\ userQuota' = userQuota + FinalPreConsumedQuota
            /\ FinalPreConsumedQuota' = 0
            /\ returnCalls' = returnCalls + 1
       ELSE UNCHANGED <<userQuota, FinalPreConsumedQuota, returnCalls>>
    /\ responses' = IF err # Nil THEN Append(responses, ErrorResponse(err))
                    ELSE responses
    /\ ws' = IF ws = "open" THEN "closed" ELSE ws

\* an upgrade failure that does not return
UpgradeFailedContinue == "validate"

\* where a failed upgrade leads: return, before any defer is registered
UpgradeFailedReturn == "done"

\* the request body left as the previous read left it
ResetBodyMissing(body, buffer) == body

\* requestBody, _ := common.GetRequestBody(c)
\* c.Request.Body = io.NopCloser(bytes.NewBuffer(requestBody))
ResetBody(body, buffer) == buffer

\* the channel error built from the first channel of the request
NewChannelErrorFirst == use_channel[1]

\* types.NewChannelError(channel.Id, ...): the id copied into the ChannelError
NewChannelErrorId == channel

\* service.ShouldDisableChannel(channelId, err): the policy on the error's
\* kind; the kind it disables on is the invalid credential, a 401
ShouldDisableChannel(err) == err.StatusCode = 401

\* a disable that does not look at the channel's auto_ban
DisableDueNoAutoBan(should, ban) == should

\* service.ShouldDisableChannel(channelError.ChannelId, err) && channelError.AutoBan
DisableDue(should, ban) == should /\ ban

\* ------------------------------------------------------------------- Relay
\* upgrader.Upgrade for the realtime format
Upgrade ==
    /\ pc = "upgrade"
    /\ \/ /\ pc' = "validate"
          /\ ws' = "open"
          /\ UNCHANGED <<responses, exit>>
       \/ /\ pc' = UpgradeFailedReturn
          /\ exit' = "error"
          /\ responses' = Append(responses,
                [envelope |-> "realtime", status |-> 500,
                 code |-> "get_channel_failed", requestId |-> FALSE])
          /\ UNCHANGED ws
    /\ UNCHANGED <<convert, logging, override,
                   config, quota, task, wire, async, channel_id, use_channel,
                   i, channel, newAPIError, dispatches, processed, retryLog,
                   stages>>

\* a stage before the pre-consume: it succeeds, or Relay returns its error
Stage(at, code, next) ==
    /\ pc = at
    /\ stages' = Append(stages, at)
    /\ \/ /\ pc' = next
          /\ UNCHANGED <<newAPIError, userQuota, FinalPreConsumedQuota,
                         returnCalls, responses, ws, exit>>
       \/ Return(NewError(code, FALSE), "error")
    /\ UNCHANGED <<convert, logging, override,
                   config, task, wire, async, channel_id, use_channel, i,
                   channel, deferRefund, ShouldPreConsumedQuota, preDebit,
                   preConsumeCalls, dispatches, processed, retryLog>>

Validate  == Stage("validate", "invalid_request", "genInfo")
GenInfo   == Stage("genInfo", "gen_relay_info_failed", "sensitive")

\* a sensitive-word check that jumps to the pricing
SensitiveSkipsCount == Stage("sensitive", "sensitive_words_detected", "price")

Sensitive == Stage("sensitive", "sensitive_words_detected", "count")
Count     == Stage("count", "count_token_failed", "price")

\* helper.ModelPriceHelper
Price ==
    /\ pc = "price"
    /\ stages' = Append(stages, "price")
    /\ \/ /\ pc' = "preconsume"
          /\ ShouldPreConsumedQuota' \in 0 .. MaxQuota
          /\ UNCHANGED <<newAPIError, userQuota, FinalPreConsumedQuota,
                         returnCalls, responses, ws, exit>>
       \/ /\ Return(NewError("model_price_error", FALSE), "error")
          /\ UNCHANGED ShouldPreConsumedQuota
    /\ UNCHANGED <<convert, logging, override,
                   config, task, wire, async, channel_id, use_channel, i,
                   channel, deferRefund, preDebit, preConsumeCalls,
                   dispatches, processed, retryLog>>

\* the pre-consume, and on success the registration of the refund defer
PreConsume ==
    /\ pc = "preconsume"
    /\ stages' = Append(stages, "preconsume")
    /\ preConsumeCalls' = preConsumeCalls + 1
    /\ \E r \in PreConsumeQuota(ShouldPreConsumedQuota, userQuota) :
         IF r.err # Nil
         THEN /\ Return(r.err, "error")
              /\ UNCHANGED <<deferRefund, preDebit, i>>
         ELSE /\ userQuota' = r.balance
              /\ FinalPreConsumedQuota' = r.final
              /\ preDebit' = r.final
              /\ deferRefund' = TRUE
              /\ i' = 0
              /\ pc' = LoopBody
              /\ UNCHANGED <<newAPIError, returnCalls, responses, ws, exit>>
    /\ UNCHANGED <<convert, logging, override,
                   config, task, wire, async, channel_id, use_channel,
                   channel, ShouldPreConsumedQuota, dispatches, processed,
                   retryLog>>

\* a break that leaves newAPIError as the last attempt set it
SelectorErrorKeepsUpstream(err, previous) == previous

\* newAPIError = err, before the break
SelectorError(err, previous) == err

\* the head of an attempt: getChannel(c, group, originalModel, i)
GetChannel ==
    /\ pc = "getChannel"
    /\ \E r \in getChannel(i) :
         IF r.err # Nil
         THEN /\ newAPIError' = SelectorError(r.err, newAPIError)
              /\ pc' = GetChannelFailedBreak
              /\ UNCHANGED <<channel, channel_id>>
         ELSE /\ channel' = r.channel
              /\ channel_id' = r.ctx
              /\ pc' = "dispatch"
              /\ UNCHANGED newAPIError
    /\ UNCHANGED <<convert, logging, override,
                   config, quota, task, wire, async, use_channel, i,
                   dispatches, processed, responses, retryLog, ws, stages,
                   exit>>

\* addUsedChannel, the reset of the request body and the relay helper, which
\* reads the body, may write response bytes to the client, and answers nil,
\* an error, or panics
Dispatch ==
    /\ pc = "dispatch"
    /\ use_channel' = addUsedChannel(use_channel, channel)
    /\ dispatches' = dispatches + 1
    /\ sent' = Append(sent, ResetBody(Body, requestBody))
    /\ Body' = Consumed
    /\ \/ /\ flushed' = TRUE
          /\ Return(Nil, "ok")
       \/ /\ \E f \in BOOLEAN : flushed' = (flushed \/ f)
          /\ Return(newAPIError, "panic")
       \/ /\ \E f \in BOOLEAN : flushed' = (flushed \/ f)
          /\ newAPIError' \in AttemptErrors
          /\ pc' = "processErr"
          /\ UNCHANGED <<userQuota, FinalPreConsumedQuota, returnCalls,
                         responses, ws, exit>>
    /\ UNCHANGED <<convert, logging, override,
                   config, task, async, channel_id, i, channel, deferRefund,
                   ShouldPreConsumedQuota, preDebit, preConsumeCalls,
                   processed, retryLog, stages>>

\* processChannelError(c, *types.NewChannelError(channel.Id, ...), newAPIError):
\* when the policy and the channel's AutoBan say so, the disable is handed to
\* the worker pool with the ChannelError copied into it.  (The error-log row
\* goes to an append-only sink that the pipeline never reads.)
ProcessChannelError ==
    /\ pc = "processErr"
    /\ processed' = Append(processed, NewChannelErrorId)
    /\ \E ban \in BOOLEAN : \* channel.GetAutoBan()
         pending' =
           IF DisableDue(ShouldDisableChannel(newAPIError), ban)
           THEN pending \cup
                  {[ChannelId |-> NewChannelErrorId,
                    AutoBan   |-> ban,
                    policy    |-> ShouldDisableChannel(newAPIError)]}
           ELSE pending
    /\ pc' = "shouldRetry"
    /\ UNCHANGED <<convert, logging, override,
                   config, quota, task, wire, channel_id, use_channel, i,
                   channel, newAPIError, dispatches, responses, retryLog, ws,
                   stages, exit>>

\* the worker pool runs service.DisableChannel(channelError, err.Error())
DisableChannel ==
    /\ \E t \in pending : pending' = pending \ {t}
    /\ UNCHANGED <<convert, logging, override,
                   config, quota, task, wire, channel_id, use_channel, pc, i,
                   channel, newAPIError, dispatches, processed, responses,
                   retryLog, ws, stages, exit>>

\* the retry decision and the loop's increment and test
RetryDecision ==
    /\ pc = "shouldRetry"
    /\ IF ~shouldRetry(newAPIError, RetryTimes - i, specific_channel_id)
       THEN pc' = "afterLoop" /\ UNCHANGED i
       ELSE /\ i' = i + 1
            /\ pc' = IF LoopCond(i + 1) THEN LoopBody ELSE "afterLoop"
    /\ UNCHANGED <<convert, logging, override,
                   config, quota, task, wire, async, channel_id, use_channel,
                   channel, newAPIError, dispatches, processed, responses,
                   retryLog, ws, stages, exit>>

\* after the loop: the retry-path log line, then Relay returns
AfterLoop ==
    /\ pc = "afterLoop"
    /\ retryLog' = IF Len(use_channel) > 1 THEN use_channel ELSE retryLog
    /\ Return(newAPIError, IF newAPIError = Nil THEN "ok" ELSE "error")
    /\ UNCHANGED <<convert, logging, override,
                   config, task, wire, async, channel_id, use_channel, i,
                   channel, deferRefund, ShouldPreConsumedQuota, preDebit,
                   preConsumeCalls, dispatches, processed, stages>>

\* --------------------------------------------------------------- RelayTask
\* entry: the locals, the context's use_channel and GenRelayInfo
TaskStart ==
    /\ pc = "taskStart"
    /\ retryTimes' = RetryTimes
    /\ channel' = channel_id
    /\ use_channel' = <<channel_id>>
    /\ \/ pc' = "done" /\ exit' = "error"
       \/ pc' = "taskFirst" /\ UNCHANGED exit
    /\ UNCHANGED <<convert, logging, override,
                   config, quota, wire, async, channel_id, i, newAPIError,
                   taskErr, dispatches, processed, responses, retryLog, ws,
                   stages>>

\* the first taskRelayHandler call, which reads the body as it stands; a
\* success sets the retry limit to zero
TaskFirst ==
    /\ pc = "taskFirst"
    /\ dispatches' = dispatches + 1
    /\ sent' = Append(sent, Body)
    /\ Body' = Consumed
    /\ \E e \in TaskErrors \cup {NilTask} :
         /\ taskErr' = e
         /\ retryTimes' = IF e = NilTask THEN 0 ELSE retryTimes
    /\ i' = 0
    /\ pc' = "taskLoop"
    /\ UNCHANGED <<convert, logging, override,
                   config, quota, async, channel_id, use_channel, channel,
                   newAPIError, processed, responses, retryLog, ws, stages,
                   flushed, exit>>

\* the loop's test, and in the loop getChannel(c, group, originalModel, i)
\* and the append to use_channel
TaskLoop ==
    /\ pc = "taskLoop"
    /\ IF ~TaskLoopCond
       THEN /\ pc' = "taskEnd"
            /\ UNCHANGED <<channel, channel_id, use_channel, taskErr>>
       ELSE \E r \in getChannel(i) :
              IF r.err # Nil
              THEN /\ taskErr' = TaskErrorWrapperLocal
                   /\ pc' = "taskEnd"
                   /\ UNCHANGED <<channel, channel_id, use_channel>>
              ELSE /\ channel' = r.channel
                   /\ channel_id' = r.ctx
                   /\ use_channel' = Append(use_channel, r.channel)
                   /\ pc' = "taskDispatch"
                   /\ UNCHANGED taskErr
    /\ UNCHANGED <<convert, logging, override,
                   config, quota, wire, async, retryTimes, i, newAPIError,
                   dispatches, processed, responses, retryLog, ws, stages, exit>>

\* the reset of the request body, taskRelayHandler and the loop's increment
TaskDispatch ==
    /\ pc = "taskDispatch"
    /\ dispatches' = dispatches + 1
    /\ sent' = Append(sent, ResetBody(Body, requestBody))
    /\ Body' = Consumed
    /\ taskErr' \in TaskErrors \cup {NilTask}
    /\ i' = i + 1
    /\ pc' = "taskLoop"
    /\ UNCHANGED <<convert, logging, override,
                   config, quota, async, retryTimes, channel_id, use_channel,
                   channel, newAPIError, processed, responses, retryLog, ws,
                   stages, flushed, exit>>

\* after the loop: the retry-path log line and the error response
TaskEnd ==
    /\ pc = "taskEnd"
    /\ retryLog' = IF Len(use_channel) > 1 THEN use_channel ELSE retryLog
    /\ responses' = IF taskErr # NilTask
                    THEN Append(responses,
                           [envelope |-> "task", status |-> taskErr.StatusCode,
                            code |-> "task_error", requestId |-> FALSE])
                    ELSE responses
    /\ exit' = IF taskErr # NilTask THEN "error" ELSE "ok"
    /\ pc' = "done"
    /\ UNCHANGED <<convert, logging, override,
                   config, quota, task, wire, async, channel_id, use_channel,
                   i, channel, newAPIError, dispatches, processed, ws, stages>>

Next ==
    \/ Upgrade
    \/ Validate
    \/ GenInfo
    \/ Sensitive
    \/ Count
    \/ Price
    \/ PreConsume
    \/ GetChannel
    \/ Dispatch
    \/ ProcessChannelError
    \/ RetryDecision
    \/ AfterLoop
    \/ TaskStart
    \/ TaskFirst
    \/ TaskLoop
    \/ TaskDispatch
    \/ TaskEnd
    \/ DisableChannel

Spec == Init /\ [][Next]_vars

\* a request handler that can take a step eventually takes it
FairSpec == Spec /\ WF_vars(Next)

\* ================================================================== claims

\* the statuses the retry policy never retries: 400, 408, 504, 524 and 2xx
NoRetryStatus(st) ==
    st \in {400, 408, 504, 524} \/ (200 <= st /\ st <= 299)

\* C1: a Relay request whose pre-consume succeeded with a non-zero
\* FinalPreConsumedQuota has ReturnPreConsumedQuota invoked exactly once when
\* it ends with an error (selector failure, non-retryable error, retry
\* exhaustion) and not at all while it runs or when it ends successfully,
\* also after failed earlier attempts.
C1_RefundOnceOnError ==
    (handler = "Relay" /\ deferRefund /\ preDebit # 0) =>
        /\ exit = "error" => returnCalls = 1
        /\ exit \in {"", "ok"} => returnCalls = 0

C1_Witness ==
    /\ handler = "Relay" /\ preDebit # 0 /\ exit = "error"
    /\ dispatches = RetryTimes + 1 /\ RetryTimes >= 1 /\ returnCalls = 1

\* C2: a Relay request that fails before the pre-consume completed (the
\* upgrade, a stage, or the pre-consume call itself) never has
\* ReturnPreConsumedQuota invoked.
C2_NoRefundBeforePreConsume ==
    (handler = "Relay" /\ ~deferRefund) => returnCalls = 0

C2_Witness ==
    /\ handler = "Relay" /\ exit = "error" /\ ~deferRefund
    /\ preConsumeCalls = 1 /\ newAPIError.code = "insufficient_user_quota"

\* C3: PreConsumeQuota is invoked at most once per request, however many
\* attempts the retry loop performs.
C3_PreConsumeAtMostOnce == preConsumeCalls <= 1

C3_Witness ==
    handler = "Relay" /\ dispatches >= 2 /\ preConsumeCalls = 1 /\ pc = "done"

\* C4: Relay always terminates, and it performs at most RetryTimes + 1
\* upstream dispatches whatever errors the attempts return.
C4_LoopBounded ==
    /\ [](handler = "Relay" => dispatches <= RetryTimes + 1)
    /\ (handler = "Relay" => <>(pc = "done"))

C4_Witness ==
    /\ handler = "Relay" /\ pc = "done" /\ RetryTimes = MaxRetryTimes
    /\ dispatches = RetryTimes + 1 /\ IsChannelError(newAPIError)

\* C5: after an attempt returned an error flagged skip_retry, Relay performs
\* no further attempt, whatever the error's status and channel_error flag.
C5_NoAttemptAfterSkipRetry ==
    (handler = "Relay" /\ pc = "dispatch" /\ i >= 1) =>
        ~IsSkipRetryError(newAPIError)

\* C6: a request pinned to a specific channel performs exactly one attempt,
\* whatever error that attempt returns.
C6_PinnedSingleAttempt ==
    specific_channel_id => dispatches <= 1 /\ Len(use_channel) <= 1

\* C7: for an error without channel_error whose status is 400, 408, 504, 524
\* or 2xx, shouldRetry is false for every remaining budget, and no further
\* attempt follows such an error.
C7_NoRetryStatuses ==
    (handler = "Relay" /\ newAPIError # Nil /\ ~newAPIError.channelError
       /\ NoRetryStatus(newAPIError.StatusCode)) =>
        /\ pc = "shouldRetry" =>
             \A b \in -1 .. RetryTimes, p \in BOOLEAN :
                 ~shouldRetry(newAPIError, b, p)
        /\ ~(pc \in {"getChannel", "dispatch"} /\ i >= 1)

C7_Witness ==
    /\ handler = "Relay" /\ pc = "afterLoop" /\ i = 0 /\ RetryTimes >= 1
    /\ ~specific_channel_id /\ newAPIError.StatusCode = 524
    /\ ~newAPIError.channelError /\ ~newAPIError.skipRetry

\* C8: with budget left, no skip_retry, no pinned channel and no
\* channel_error, shouldRetry is true exactly when the status is outside
\* {400, 408, 504, 524, 2xx}: the loop stops early on those statuses only.
C8_RetryStatuses ==
    (handler = "Relay" /\ newAPIError.code = "channel_response_error"
       /\ RetryTimes - i > 0 /\ ~newAPIError.skipRetry
       /\ ~newAPIError.channelError /\ ~specific_channel_id) =>
        /\ pc = "shouldRetry" =>
             (shouldRetry(newAPIError, RetryTimes - i, specific_channel_id)
                <=> ~NoRetryStatus(newAPIError.StatusCode))
        /\ pc = "afterLoop" => NoRetryStatus(newAPIError.StatusCode)

C8_Witness ==
    /\ handler = "Relay" /\ pc = "dispatch" /\ i = 1
    /\ newAPIError.StatusCode = 401 /\ ~newAPIError.skipRetry
    /\ ~newAPIError.channelError /\ ~specific_channel_id

\* C9: when the selection of a retry attempt (index >= 1) fails, the error
\* is GetChannelFailed flagged skip_retry and the loop ends at once: no
\* dispatch happens for that attempt and none after it.
C9_SelectorFailureEndsLoop ==
    (handler = "Relay" /\ newAPIError.code = "get_channel_failed") =>
        /\ i >= 1
        /\ newAPIError.skipRetry
        /\ pc \in {"afterLoop", "done"}
        /\ dispatches = i
        /\ Len(use_channel) = i

C9_Witness ==
    /\ handler = "Relay" /\ newAPIError.code = "get_channel_failed"
    /\ pc = "done" /\ i = 1 /\ RetryTimes = MaxRetryTimes

\* C10: within one request no channel is attempted twice: use_channel never
\* holds the same channel id more than once.
C10_NoChannelTwice ==
    \A a, b \in 1 .. Len(use_channel) :
        a # b => use_channel[a] # use_channel[b]

\* the sequence s without its last element
Front(s) == SubSeq(s, 1, Len(s) - 1)

\* C11: once an attempt of Relay has flushed response bytes to the client,
\* Relay performs no further attempt: an error after the flush is terminal.
C11_NoAttemptAfterFlush ==
    (handler = "Relay" /\ pc = "dispatch" /\ i >= 1) => ~flushed

\* C12: every attempt that follows a reset of the request body (each attempt
\* of Relay, each retry of RelayTask) hands the same bytes, those of the
\* retained buffer, to the dispatch.
C12_SameBodyEveryAttempt ==
    /\ Len(sent) = dispatches
    /\ \A k \in 1 .. Len(sent) :
         (handler = "Relay" \/ k >= 2) => sent[k] = requestBody

C12_Witness ==
    /\ handler = "Relay" /\ dispatches >= 2 /\ pc = "done"
    /\ sent[1] = requestBody /\ sent[2] = requestBody

\* C13: a Relay request that ends, in success or in failure, with more than
\* one channel in use_channel has logged the retry path, the channels in the
\* order they were tried.
C13_RetryPathLogged ==
    (handler = "Relay" /\ pc = "done" /\ exit \in {"ok", "error"}
       /\ Len(use_channel) > 1)
      => retryLog = use_channel

\* C14: processChannelError runs exactly once for each failed attempt, with
\* the channel of that attempt, before the retry decision, and never for an
\* attempt that succeeded.
C14_ProcessedEachFailure ==
    handler = "Relay" =>
      /\ pc \in {"shouldRetry", "getChannel", "dispatch", "afterLoop"}
           => processed = use_channel
      /\ pc = "processErr"
           => processed = Front(use_channel)
              /\ channel = use_channel[Len(use_channel)]
      /\ (pc = "done" /\ exit = "ok")
           => processed = Front(use_channel)
      /\ (pc = "done" /\ exit = "error")
           => processed = use_channel

C14_Witness ==
    /\ handler = "Relay" /\ pc = "done" /\ exit = "ok"
    /\ Len(use_channel) = 3 /\ processed = <<use_channel[1], use_channel[2]>>
    /\ use_channel[1] # use_channel[2]

\* C15: a disable is handed to the worker pool only for an error the policy
\* disables on and a channel with auto_ban set; the task holds the channel
\* values copied at the failure, and the retry decision and the next attempt
\* never wait for it.
C15_DisableOnlyWhenDueAndAsync ==
    /\ \A t \in pending :
         /\ t.policy /\ t.AutoBan
         /\ \E k \in 1 .. Len(processed) : processed[k] = t.ChannelId
    /\ (handler = "Relay" /\ pc = "shouldRetry") => ENABLED RetryDecision
    /\ (handler = "Relay" /\ pc = "getChannel") => ENABLED GetChannel
    /\ (handler = "Relay" /\ pc = "dispatch") => ENABLED Dispatch

C15_Witness ==
    /\ handler = "Relay" /\ pc = "dispatch" /\ i = 1
    /\ \E t \in pending : t.ChannelId = use_channel[1] /\ t.ChannelId # channel

\* C16: a panic inside an attempt ends the request as a failure with an
\* Internal (500) error: one error response is sent and the pre-consumed
\* quota is refunded.
C16_PanicBecomesInternalError ==
    (handler = "Relay" /\ exit = "panic") =>
        /\ newAPIError # Nil /\ newAPIError.StatusCode = 500
        /\ Len(responses) = 1
        /\ preDebit # 0 => returnCalls = 1

\* C17: every error response of Relay carries the request id and the envelope
\* of the inbound format, and a failed request sends exactly one.
C17_ErrorResponseShape ==
    handler = "Relay" =>
        /\ \A k \in 1 .. Len(responses) :
             /\ responses[k].requestId
             /\ responses[k].envelope =
                  (CASE relayFormat = "openai_realtime" -> "realtime"
                     [] relayFormat = "claude" -> "claude"
                     [] OTHER -> "openai")
        /\ exit = "error" => Len(responses) = 1

\* C18: a realtime request whose upgrade failed has ended with one error
\* reported to the client, without any stage, pre-consume, channel selection
\* or dispatch.
C18_UpgradeFailureEndsRequest ==
    (handler = "Relay" /\ relayFormat = "openai_realtime" /\ ws = "nil"
       /\ pc # "upgrade")
      => /\ pc = "done" /\ exit = "error"
         /\ Len(responses) = 1 /\ responses[1].envelope = "realtime"
         /\ stages = <<>> /\ preConsumeCalls = 0 /\ preDebit = 0
         /\ returnCalls = 0 /\ channel = 0 /\ use_channel = <<>>
         /\ dispatches = 0

C18_Witness ==
    /\ handler = "Relay" /\ relayFormat = "openai_realtime" /\ ws = "nil"
    /\ pc = "done" /\ exit = "error" /\ Len(responses) = 1 /\ userQuota > 0

\* the stages of Relay before the attempts, in the order of the claim
StageOrder ==
    <<"validate", "genInfo", "sensitive", "count", "price", "preconsume">>

\* the error kinds with which a stage ends the request
StageCodes(at) ==
    CASE at = "validate"   -> {"invalid_request"}
      [] at = "genInfo"    -> {"gen_relay_info_failed"}
      [] at = "sensitive"  -> {"sensitive_words_detected"}
      [] at = "count"      -> {"count_token_failed"}
      [] at = "price"      -> {"model_price_error"}
      [] at = "preconsume" -> {"pre_consume_failed", "insufficient_user_quota"}

\* C19: the stages of Relay run in the fixed order, no dispatch happens
\* before the pre-consume succeeded, and a stage that fails ends the request
\* with its own error kind and without any later stage or attempt.
C19_StagesInOrder ==
    handler = "Relay" =>
        /\ Len(stages) <= Len(StageOrder)
        /\ stages = SubSeq(StageOrder, 1, Len(stages))
        /\ (dispatches > 0 \/ channel # 0) =>
              /\ stages = StageOrder
              /\ deferRefund /\ preConsumeCalls = 1
        /\ (pc = "done" /\ exit = "error" /\ ~deferRefund /\ stages # <<>>) =>
              /\ newAPIError.code \in StageCodes(stages[Len(stages)])
              /\ Len(responses) = 1
              /\ responses[1].code = newAPIError.code
              /\ dispatches = 0 /\ use_channel = <<>> /\ channel = 0

C19_Witness ==
    /\ handler = "Relay" /\ pc = "done" /\ exit = "error"
    /\ stages = <<"validate", "genInfo", "sensitive">>
    /\ newAPIError.code = "sensitive_words_detected"

\* C20: RelayTask performs no retry after a first invocation that succeeded
\* (the retry limit is then zero); after one that failed it invokes the
\* handler at most RetryTimes more times, each only after a failure for which
\* shouldRetryTaskRelay answered true.
C20_TaskRetryBounded ==
    handler = "RelayTask" =>
        /\ dispatches <= RetryTimes + 1
        /\ pc = "taskDispatch" =>
              /\ taskErr # NilTask
              /\ shouldRetryTaskRelay(taskErr, retryTimes, specific_channel_id)
              /\ dispatches <= RetryTimes
        /\ (pc \in {"taskLoop", "taskEnd"} /\ dispatches = 1
              /\ taskErr = NilTask) => retryTimes = 0
        /\ (pc \in {"taskLoop", "taskDispatch", "taskEnd"} /\ retryTimes = 0)
              => dispatches = 1
        /\ (pc \in {"taskEnd", "done"} /\ dispatches >= 1
              /\ dispatches <= RetryTimes /\ retryTimes # 0
              /\ taskErr # TaskErrorWrapperLocal)
              => ~shouldRetryTaskRelay(taskErr, retryTimes, specific_channel_id)

C20_Witness ==
    /\ handler = "RelayTask" /\ pc = "done" /\ RetryTimes = MaxRetryTimes
    /\ dispatches = RetryTimes + 1 /\ taskErr # NilTask

\* =========================================================== param override
\* ---------------------------------------------------------- gjson and sjson
\* the path parts that are array indexes, and the negative ones
NumericParts == <<"0", "1", "2", "3", "4", "5">>
NegativeParts == <<"-1", "-2", "-3">>

IsNumeric(p) == \E k \in 1 .. Len(NumericParts) : NumericParts[k] = p
IsNegative(p) == \E k \in 1 .. Len(NegativeParts) : NegativeParts[k] = p

\* strconv.Atoi on an index part, strconv.Itoa on an index
Atoi(p) ==
    IF IsNumeric(p)
    THEN (CHOOSE k \in 1 .. Len(NumericParts) : NumericParts[k] = p) - 1
    ELSE 0 - (CHOOSE k \in 1 .. Len(NegativeParts) : NegativeParts[k] = p)
Itoa(n) == NumericParts[n + 1]

\* an object with one more key, with one key less; an array with one
\* element less
WithKey(o, k, x) == [j \in DOMAIN o \cup {k} |-> IF j = k THEN x ELSE o[j]]
WithoutKey(o, k) == [j \in DOMAIN o \ {k} |-> o[j]]
WithoutElem(a, n) == SubSeq(a, 1, n - 1) \o SubSeq(a, n + 1, Len(a))
Nulls(n) == [k \in 1 .. n |-> Null]

\* gjson.Get below a value: object keys and array indexes
RECURSIVE Walk(_, _)
Walk(val, path) ==
    IF path = <<>> THEN val
    ELSE LET part == Head(path) IN
         IF val.t = "obj"
         THEN IF part \in DOMAIN val.v
              THEN Walk(val.v[part], Tail(path)) ELSE Missing
         ELSE IF val.t = "arr"
         THEN IF IsNumeric(part) /\ Atoi(part) < Len(val.v)
              THEN Walk(val.v[Atoi(part) + 1], Tail(path)) ELSE Missing
         ELSE Missing

\* gjson.Get(json, path)
gjsonGet(json, path) == IF path = <<>> THEN Missing ELSE Walk(json, path)

\* sjson's appendBuild: the value built for the parts of a path that do not
\* exist yet, arrays for index parts and objects for keys
RECURSIVE appendBuild(_, _)
appendBuild(path, raw) ==
    IF path = <<>> THEN raw
    ELSE LET p == Head(path) IN
         IF IsNumeric(p)
         THEN Arr(Nulls(Atoi(p)) \o <<appendBuild(Tail(path), raw)>>)
         ELSE IF p = "-1"
         THEN Arr(<<appendBuild(Tail(path), raw)>>)
         ELSE Obj(WithKey(<<>>, p, appendBuild(Tail(path), raw)))

\* sjson's appendRawPaths for a set: an existing part is replaced or
\* descended into; a missing one is added to the object, or to the array at
\* its index (padded with nulls) or at its end for "-1"; a value that is no
\* object or array is replaced by an empty one
RECURSIVE appendRawPaths(_, _, _)
appendRawPaths(val, path, raw) ==
    LET part  == Head(path)
        rest  == Tail(path)
        found == Walk(val, <<part>>)
        jsres == IF val.t \in {"obj", "arr"} THEN val
                 ELSE IF IsNumeric(part) THEN Arr(<<>>) ELSE Obj(<<>>)
    IN IF found.t # "missing"
       THEN LET sub == IF rest = <<>> THEN raw
                       ELSE appendRawPaths(found, rest, raw)
            IN IF sub.t = "error" THEN Failed
               ELSE IF val.t = "obj" THEN Obj(WithKey(val.v, part, sub))
               ELSE Arr([val.v EXCEPT ![Atoi(part) + 1] = sub])
       ELSE IF jsres.t = "obj"
       THEN Obj(WithKey(jsres.v, part, appendBuild(rest, raw)))
       ELSE IF IsNumeric(part)
       THEN Arr(jsres.v \o Nulls(Atoi(part) - Len(jsres.v))
                  \o <<appendBuild(rest, raw)>>)
       ELSE IF part = "-1"
       THEN Arr(Append(jsres.v, appendBuild(rest, raw)))
       ELSE Failed

\* sjson.Set(json, path, value)
sjsonSet(json, path, value) ==
    IF path = <<>> THEN Failed ELSE appendRawPaths(json, path, value)

\* sjson's appendRawPaths for a delete: "-1" names the last element of an
\* array; a path that does not exist leaves the value as it is
RECURSIVE deleteRawPaths(_, _)
deleteRawPaths(val, path) ==
    LET rest  == Tail(path)
        part  == IF val.t = "arr" /\ Head(path) = "-1" /\ Len(val.v) > 0
                 THEN Itoa(Len(val.v) - 1) ELSE Head(path)
        found == Walk(val, <<part>>)
    IN IF found.t = "missing" THEN val
       ELSE IF rest # <<>>
       THEN IF val.t = "obj"
            THEN Obj(WithKey(val.v, part, deleteRawPaths(found, rest)))
            ELSE Arr([val.v EXCEPT ![Atoi(part) + 1] =
                                      deleteRawPaths(found, rest)])
       ELSE IF val.t = "obj" THEN Obj(WithoutKey(val.v, part))
       ELSE Arr(WithoutElem(val.v, Atoi(part) + 1))

\* sjson.Delete(json, path)
sjsonDelete(json, path) ==
    IF path = <<>> THEN Failed ELSE deleteRawPaths(json, path)

\* ------------------------------------------------------------ Go's strings
\* the words whose case matters, lower and upper
Cases == {<<"and", "AND">>, <<"or", "OR">>, <<"full", "FULL">>}

ToUpper(s) ==
    [k \in DOMAIN s |->
        IF \E c \in Cases : c[1] = s[k]
        THEN (CHOOSE c \in Cases : c[1] = s[k])[2] ELSE s[k]]
ToLower(s) ==
    [k \in DOMAIN s |->
        IF \E c \in Cases : c[2] = s[k]
        THEN (CHOOSE c \in Cases : c[2] = s[k])[1] ELSE s[k]]

HasPrefix(s, p) == Len(p) <= Len(s) /\ SubSeq(s, 1, Len(p)) = p
HasSuffix(s, p) ==
    Len(p) <= Len(s) /\ SubSeq(s, Len(s) - Len(p) + 1, Len(s)) = p
Contains(s, p) ==
    \E k \in 0 .. Len(s) - Len(p) : SubSeq(s, k + 1, k + Len(p)) = p

\* the text of a JSON value, the keys of an object in this order
KeyOrder == <<"a", "b", "c", "j", "k", "m", "o", "operations", "r">>

RECURSIVE Raw(_), RawElems(_, _), RawKeys(_, _, _)
Raw(val) ==
    CASE val.t = "str" -> <<"\"">> \o val.v \o <<"\"">>
      [] val.t = "num" -> <<Itoa(val.v)>>
      [] val.t = "bool" -> IF val.v THEN <<"true">> ELSE <<"false">>
      [] val.t = "null" -> <<"null">>
      [] val.t = "arr" -> <<"[">> \o RawElems(val.v, 1) \o <<"]">>
      [] val.t = "obj" -> <<"{">> \o RawKeys(val.v, 1, TRUE) \o <<"}">>
      [] OTHER -> <<>>
RawElems(a, k) ==
    IF k > Len(a) THEN <<>>
    ELSE (IF k > 1 THEN <<",">> ELSE <<>>) \o Raw(a[k]) \o RawElems(a, k + 1)
RawKeys(o, k, first) ==
    IF k > Len(KeyOrder) THEN <<>>
    ELSE IF KeyOrder[k] \notin DOMAIN o THEN RawKeys(o, k + 1, first)
    ELSE (IF first THEN <<>> ELSE <<",">>)
         \o <<"\"", KeyOrder[k], "\"", ":">> \o Raw(o[KeyOrder[k]])
         \o RawKeys(o, k + 1, FALSE)

\* gjson's Result.Type and Result.String()
Type(val) ==
    CASE val.t = "num" -> "Number"
      [] val.t = "str" -> "String"
      [] val.t = "bool" -> IF val.v THEN "True" ELSE "False"
      [] val.t \in {"arr", "obj"} -> "JSON"
      [] OTHER -> "Null"
String(val) ==
    CASE val.t = "str" -> val.v
      [] val.t \in {"num", "bool", "arr", "obj"} -> Raw(val)
      [] OTHER -> <<>>

\* fmt.Sprintf("%v", value) of a scalar
Sprintf(value) ==
    CASE value.t = "str" -> value.v
      [] value.t \in {"num", "bool"} -> Raw(value)
      [] value.t = "null" -> <<"<nil>">>

\* -------------------------------------------------------- tryParseOperations
\* opMap[key]: Missing when the map lacks the key
Field(m, key) == IF key \in DOMAIN m.v THEN m.v[key] ELSE Missing

\* opMap[key].(string), opMap[key].(bool), opMap[key], with the struct's
\* zero value when the assertion fails
StringField(m, key) == IF Field(m, key).t = "str" THEN Field(m, key).v ELSE <<>>
BoolField(m, key) == IF Field(m, key).t = "bool" THEN Field(m, key).v ELSE FALSE
ValueField(m, key) == IF key \in DOMAIN m.v THEN m.v[key] ELSE Null

\* the ConditionOperation read from a condition map
ParseCondition(condMap) ==
    [Path           |-> StringField(condMap, "path"),
     Mode           |-> StringField(condMap, "mode"),
     Value          |-> ValueField(condMap, "value"),
     Invert         |-> BoolField(condMap, "invert"),
     PassMissingKey |-> BoolField(condMap, "pass_missing_key")]

\* the conditions of an operation map: the maps of its "conditions" list
ParseConditions(opMap) ==
    LET conditions == Field(opMap, "conditions")
        condSlice  == SelectSeq(conditions.v, LAMBDA cond : cond.t = "obj")
    IN IF conditions.t = "arr"
       THEN [k \in 1 .. Len(condSlice) |-> ParseCondition(condSlice[k])]
       ELSE <<>>

\* the logic of an operation map: "OR" unless it names one
DefaultLogicAnd(opMap) ==
    IF Field(opMap, "logic").t = "str"
    THEN Field(opMap, "logic").v ELSE <<"AND">>
DefaultLogic(opMap) ==
    IF Field(opMap, "logic").t = "str"
    THEN Field(opMap, "logic").v ELSE <<"OR">>

\* the ParamOperation read from an operation map
ParseOperation(opMap) ==
    [Path       |-> StringField(opMap, "path"),
     Mode       |-> StringField(opMap, "mode"),
     Value      |-> ValueField(opMap, "value"),
     KeepOrigin |-> BoolField(opMap, "keep_origin"),
     From       |-> StringField(opMap, "from"),
     To         |-> StringField(opMap, "to"),
     Logic      |-> DefaultLogic(opMap),
     Conditions |-> ParseConditions(opMap)]

\* tryParseOperations: the operations of a map whose "operations" is a list
\* of maps that each have a string mode
tryParseOperations(po) ==
    LET opsValue == Field(po, "operations")
        opsSlice == opsValue.v
    IN IF opsValue.t # "arr"
       THEN [operations |-> <<>>, ok |-> FALSE]
       ELSE IF \E k \in 1 .. Len(opsSlice) :
                   \/ opsSlice[k].t # "obj"
                   \/ Field(opsSlice[k], "mode").t # "str"
       THEN [operations |-> <<>>, ok |-> FALSE]
       ELSE [operations |->
                 [k \in 1 .. Len(opsSlice) |-> ParseOperation(opsSlice[k])],
             ok |-> TRUE]

\* --------------------------------------------------------------- conditions
\* processNegativeIndex: each negative part after the first part is looked
\* up in the array before its first occurrence and, when it is in range,
\* replaced by the index it names; otherwise it stays
RECURSIVE replaceMatches(_, _, _, _)
replaceMatches(jsonStr, path, res, k) ==
    IF k > Len(path) THEN res
    ELSE IF ~IsNegative(path[k]) THEN replaceMatches(jsonStr, path, res, k + 1)
    ELSE LET negIndex    == path[k]
             index       == Atoi(negIndex)
             first       == CHOOSE j \in 1 .. Len(path) :
                                /\ path[j] = negIndex
                                /\ \A m \in 1 .. j - 1 : path[m] # negIndex
             arrayPath   == SubSeq(path, 1, first - 1)
             array       == gjsonGet(jsonStr, arrayPath)
             length      == Len(array.v)
             actualIndex == length + index
             hits        == {j \in 2 .. Len(res) : res[j] = negIndex}
             hit         == CHOOSE j \in hits : \A m \in hits : j <= m
         IN IF /\ array.t = "arr"
               /\ actualIndex >= 0 /\ actualIndex < length
               /\ hits # {}
            THEN replaceMatches(jsonStr, path,
                                [res EXCEPT ![hit] = Itoa(actualIndex)], k + 1)
            ELSE replaceMatches(jsonStr, path, res, k + 1)

processNegativeIndex(jsonStr, path) == replaceMatches(jsonStr, path, path, 2)

\* compareEqual: booleans by value, other values of one type by value,
\* values of different types are an error
compareEqual(jsonValue, targetValue) ==
    IF jsonValue.t = "bool" /\ targetValue.t = "bool"
    THEN [result |-> jsonValue.v = targetValue.v, err |-> ""]
    ELSE IF Type(jsonValue) # Type(targetValue)
    THEN [result |-> FALSE, err |-> "compare for different types"]
    ELSE IF Type(jsonValue) = "Number"
    THEN [result |-> jsonValue.v = targetValue.v, err |-> ""]
    ELSE [result |-> String(jsonValue) = String(targetValue), err |-> ""]

\* compareNumeric: two numbers by order, anything else is an error
compareNumeric(jsonValue, targetValue, operator) ==
    IF Type(jsonValue) # "Number" \/ Type(targetValue) # "Number"
    THEN [result |-> FALSE,
          err |-> "numeric comparison requires both values to be numbers"]
    ELSE CASE operator = "gt" ->
                [result |-> jsonValue.v > targetValue.v, err |-> ""]
           [] operator = "gte" ->
                [result |-> jsonValue.v >= targetValue.v, err |-> ""]
           [] operator = "lt" ->
                [result |-> jsonValue.v < targetValue.v, err |-> ""]
           [] operator = "lte" ->
                [result |-> jsonValue.v <= targetValue.v, err |-> ""]
           [] OTHER ->
                [result |-> FALSE, err |-> "unsupported numeric operator"]

\* compareGjsonValues
compareGjsonValues(jsonValue, targetValue, mode) ==
    CASE mode = <<"full">> -> compareEqual(jsonValue, targetValue)
      [] mode = <<"prefix">> ->
           [result |-> HasPrefix(String(jsonValue), String(targetValue)),
            err |-> ""]
      [] mode = <<"suffix">> ->
           [result |-> HasSuffix(String(jsonValue), String(targetValue)),
            err |-> ""]
      [] mode = <<"contains">> ->
           [result |-> Contains(String(jsonValue), String(targetValue)),
            err |-> ""]
      [] mode \in {<<"gt">>, <<"gte">>, <<"lt">>, <<"lte">>} ->
           compareNumeric(jsonValue, targetValue, mode[1])
      [] OTHER -> [result |-> FALSE, err |-> "unsupported comparison mode"]

\* checkSingleCondition: a missing path answers pass_missing_key; a path
\* that exists answers the comparison, inverted when invert is set
checkSingleCondition(jsonStr, condition) ==
    LET compared(cmp) ==
            IF cmp.err # ""
            THEN [result |-> FALSE, err |-> "comparison failed"]
            ELSE [result |-> IF condition.Invert THEN ~cmp.result
                             ELSE cmp.result,
                  err |-> ""]
        found(value) ==
            IF value.t = "missing"
            THEN [result |-> condition.PassMissingKey, err |-> ""]
            ELSE compared(compareGjsonValues(value, condition.Value,
                                             ToLower(condition.Mode)))
    IN found(gjsonGet(jsonStr, processNegativeIndex(jsonStr, condition.Path)))

\* checkConditions: no condition passes; an error of any condition is the
\* answer; "AND" in any case asks for all of them, anything else for one
checkConditions(jsonStr, conditions, logic) ==
    LET combined(results, failed) ==
            IF Len(conditions) = 0 THEN [result |-> TRUE, err |-> ""]
            ELSE IF failed # {}
            THEN [result |-> FALSE,
                  err |-> results[CHOOSE k \in failed :
                                      \A m \in failed : k <= m].err]
            ELSE IF ToUpper(logic) = <<"AND">>
            THEN [result |-> \A k \in DOMAIN results : results[k].result,
                  err |-> ""]
            ELSE [result |-> \E k \in DOMAIN results : results[k].result,
                  err |-> ""]
        checked(results) ==
            combined(results, {k \in DOMAIN results : results[k].err # ""})
    IN checked([k \in 1 .. Len(conditions) |->
                    checkSingleCondition(jsonStr, conditions[k])])

\* --------------------------------------------------------------- operations
\* what sjson returned as a (string, error) pair
Returned(doc) ==
    IF doc.t = "error" THEN [json |-> Empty, err |-> "sjson"]
    ELSE [json |-> doc, err |-> ""]

\* a move that leaves its source in place
moveValueCopy(jsonStr, fromPath, toPath) ==
    LET sourceValue == gjsonGet(jsonStr, fromPath)
    IN IF sourceValue.t = "missing"
       THEN [json |-> jsonStr, err |-> "source path does not exist"]
       ELSE Returned(sjsonSet(jsonStr, toPath, sourceValue))

\* moveValue: the source must exist; its value is set at the target, then
\* the source is deleted
moveValue(jsonStr, fromPath, toPath) ==
    LET deleted(set) ==
            IF set.t = "error" THEN [json |-> Empty, err |-> "sjson"]
            ELSE Returned(sjsonDelete(set, fromPath))
        moved(sourceValue) ==
            IF sourceValue.t = "missing"
            THEN [json |-> jsonStr, err |-> "source path does not exist"]
            ELSE deleted(sjsonSet(jsonStr, toPath, sourceValue))
    IN moved(gjsonGet(jsonStr, fromPath))

\* modifyArray: the value, or its elements when it is a list, before or
\* after the elements of the array
modifyArray(jsonStr, path, value, isPrepend) ==
    LET current  == gjsonGet(jsonStr, path)
        addValue == IF value.t = "arr" THEN value.v ELSE <<value>>
        newArray == IF isPrepend THEN addValue \o current.v
                    ELSE current.v \o addValue
    IN Returned(sjsonSet(jsonStr, path, Arr(newArray)))

\* modifyString: the value's text before or after the string
modifyString(jsonStr, path, value, isPrepend) ==
    LET current  == gjsonGet(jsonStr, path)
        valueStr == Sprintf(value)
        newStr   == IF isPrepend THEN valueStr \o String(current)
                    ELSE String(current) \o valueStr
    IN Returned(sjsonSet(jsonStr, path, Str(newStr)))

\* result[k] == nil in mergeObjects: the key is absent or holds null
IsNil(m, k) == k \notin DOMAIN m \/ m[k].t = "null"

\* mergeObjects: the keys of the value are written into the object; with
\* keepOrigin only those for which the object holds nil
mergeObjects(jsonStr, path, value, keepOrigin) ==
    LET currentMap == gjsonGet(jsonStr, path).v
        newMap     == IF value.t = "obj" THEN value.v ELSE <<>>
        merged     == [k \in DOMAIN currentMap \cup
                              {j \in DOMAIN newMap :
                                   ~keepOrigin \/ IsNil(currentMap, j)} |->
                          IF /\ k \in DOMAIN newMap
                             /\ ~keepOrigin \/ IsNil(currentMap, k)
                          THEN newMap[k] ELSE currentMap[k]]
    IN IF value.t \notin {"obj", "null"}
       THEN [json |-> Empty, err |-> "json: cannot unmarshal"]
       ELSE Returned(sjsonSet(jsonStr, path, Obj(merged)))

\* modifyValue: by the type of the current value
modifyValue(jsonStr, path, value, keepOrigin, isPrepend) ==
    LET current == gjsonGet(jsonStr, path)
    IN CASE current.t = "arr" -> modifyArray(jsonStr, path, value, isPrepend)
         [] current.t = "str" -> modifyString(jsonStr, path, value, isPrepend)
         [] current.t = "obj" -> mergeObjects(jsonStr, path, value, keepOrigin)
         [] OTHER -> [json |-> jsonStr,
                      err |-> "operation not supported for type"]

\* the test that makes a set leave an existing value alone
KeepsOriginAlways(op, jsonStr, opPath) == op.KeepOrigin
KeepsOrigin(op, jsonStr, opPath) ==
    op.KeepOrigin /\ gjsonGet(jsonStr, opPath).t # "missing"

\* what an operation whose conditions do not hold does to the document
SkippedApplies(jsonStr, set) == set
Skipped(jsonStr, set) == jsonStr

\* what applyOperations does after an operation that failed
AfterErrorContinue(e) == "applyOperations"
AfterError(e) == IF e = "" THEN "applyOperations" ELSE "return"

\* one pass of the loop of applyOperations: the document and the error it
\* ends with, ran being FALSE when the conditions skipped the operation
applyOperation(jsonStr, op) ==
    LET switch(opPath, opFrom, opTo) ==
            CASE op.Mode = <<"delete">> ->
                   Returned(sjsonDelete(jsonStr, opPath))
              [] op.Mode = <<"set">> ->
                   IF KeepsOrigin(op, jsonStr, opPath)
                   THEN [json |-> jsonStr, err |-> ""]
                   ELSE Returned(sjsonSet(jsonStr, opPath, op.Value))
              [] op.Mode = <<"move">> -> moveValue(jsonStr, opFrom, opTo)
              [] op.Mode = <<"prepend">> ->
                   modifyValue(jsonStr, opPath, op.Value, op.KeepOrigin, TRUE)
              [] op.Mode = <<"append">> ->
                   modifyValue(jsonStr, opPath, op.Value, op.KeepOrigin, FALSE)
              [] OTHER -> [json |-> Empty, err |-> "unknown operation"]
        pass(gate, done) ==
            IF gate.err # ""
            THEN [json |-> Empty, err |-> gate.err, ok |-> FALSE]
            ELSE IF ~gate.result
            THEN [json |-> Skipped(jsonStr, done.json), err |-> "",
                  ok |-> FALSE]
            ELSE IF done.err # ""
            THEN [json |-> Empty, err |-> done.err, ok |-> TRUE]
            ELSE [json |-> done.json, err |-> "", ok |-> TRUE]
    IN pass(checkConditions(jsonStr, op.Conditions, op.Logic),
            switch(processNegativeIndex(jsonStr, op.Path),
                   processNegativeIndex(jsonStr, op.From),
                   processNegativeIndex(jsonStr, op.To)))

\* applyOperationsLegacy: every key of the override is written into the
\* top level of the body
applyOperationsLegacy(body, po) ==
    IF body.t # "obj" THEN [json |-> Empty, err |-> "json: cannot unmarshal"]
    ELSE [json |-> Obj([k \in DOMAIN body.v \cup DOMAIN po.v |->
                           IF k \in DOMAIN po.v THEN po.v[k] ELSE body.v[k]]),
          err |-> ""]

\* ------------------------------------------------- bodies and override maps
\* the number of operations of an override
MaxOps == 2

\* the request bodies: a is absent, a number or a string, b absent or a
\* number, r an empty or a two-element array, o an object holding a null
Present(o, k, x) == IF x.t = "missing" THEN o ELSE WithKey(o, k, x)
Docs ==
    {Obj(Present(Present([r |-> r,
                          o |-> Obj([k |-> Num(1), j |-> Null])],
                         "a", a), "b", b)) :
        a \in {Missing, Num(1), Str(<<"x", "y">>)},
        b \in {Missing, Num(1)},
        r \in {Arr(<<>>), Arr(<<Num(1), Num(2)>>)}}

\* condition maps of the override's JSON
OnA(mode, value) ==
    Obj([path |-> Str(<<"a">>), mode |-> Str(<<mode>>), value |-> value])
OnZ(pass, invert) ==
    Obj([path |-> Str(<<"z">>), mode |-> Str(<<"full">>), value |-> Num(1),
         pass_missing_key |-> Bool(pass), invert |-> Bool(invert)])

\* "set b to 2" under a list of conditions
Gated(conditions) ==
    Obj([mode |-> Str(<<"set">>), path |-> Str(<<"b">>), value |-> Num(2),
         conditions |-> Arr(conditions)])
GatedBy(conditions, logic) ==
    Obj([mode |-> Str(<<"set">>), path |-> Str(<<"b">>), value |-> Num(2),
         conditions |-> Arr(conditions), logic |-> Str(<<logic>>)])

Set(path, value) ==
    Obj([mode |-> Str(<<"set">>), path |-> Str(path), value |-> value])
Move(from, to) ==
    Obj([mode |-> Str(<<"move">>), from |-> Str(from), to |-> Str(to)])
Merge(keep) ==
    Obj([mode |-> Str(<<"append">>), path |-> Str(<<"o">>),
         keep_origin |-> Bool(keep),
         value |-> Obj([k |-> Num(2), j |-> Num(2), m |-> Num(2)])])

\* the items an "operations" list is made of
OpMaps ==
    << Set(<<"a">>, Num(2)),
       Obj([mode |-> Str(<<"set">>), path |-> Str(<<"a">>),
            value |-> Num(2), keep_origin |-> Bool(TRUE)]),
       Set(<<"r", "-1">>, Num(5)),
       Set(<<"r", "-3">>, Num(5)),
       Set(<<"a", "k">>, Num(2)),
       Obj([mode |-> Str(<<"delete">>), path |-> Str(<<"a">>)]),
       Obj([mode |-> Str(<<"delete">>), path |-> Str(<<"r", "-1">>)]),
       Move(<<"a">>, <<"b">>),
       Move(<<"b">>, <<"a">>),
       Move(<<"a">>, <<"a">>),
       Move(<<"r", "0">>, <<"b">>),
       Move(<<"b">>, <<"r", "0">>),
       Merge(TRUE),
       Merge(FALSE),
       Obj([mode |-> Str(<<"append">>), path |-> Str(<<"r">>),
            value |-> Num(5)]),
       Obj([mode |-> Str(<<"prepend">>), path |-> Str(<<"a">>),
            value |-> Str(<<"z">>)]),
       Obj([mode |-> Str(<<"replace">>), path |-> Str(<<"a">>),
            value |-> Num(2)]),
       Gated(<<OnA("gt", Num(0))>>),
       Gated(<<OnA("full", Num(1))>>),
       Gated(<<OnA("prefix", Str(<<"x">>))>>),
       Gated(<<OnZ(FALSE, TRUE)>>),
       Gated(<<OnZ(TRUE, TRUE)>>),
       Gated(<<OnZ(TRUE, FALSE), OnZ(FALSE, FALSE)>>),
       GatedBy(<<OnZ(TRUE, FALSE), OnZ(FALSE, FALSE)>>, "AND"),
       GatedBy(<<OnZ(TRUE, FALSE), OnZ(FALSE, FALSE)>>, "and"),
       Obj([path |-> Str(<<"a">>), value |-> Num(2)]),
       Num(1) >>

\* overrides that are no list of operations: empty, flat, and with an
\* "operations" key that holds no list
FlatMaps ==
    << Obj(<<>>),
       Obj([a |-> Num(2), c |-> Str(<<"x">>)]),
       Obj([operations |-> Num(1)]) >>

\* ---------------------------------------------------------- the state machine
\* the relay handlers are not running
RelayIdle ==
    /\ handler = "none"
    /\ relayFormat = "openai"
    /\ RetryTimes = 0
    /\ specific_channel_id = FALSE
    /\ channel_id = 1
    /\ use_channel = <<>>
    /\ pc = "idle"
    /\ i = 0
    /\ channel = 0
    /\ newAPIError = Nil
    /\ taskErr = NilTask
    /\ retryTimes = 0
    /\ deferRefund = FALSE
    /\ ShouldPreConsumedQuota = 0
    /\ FinalPreConsumedQuota = 0
    /\ userQuota = 0
    /\ preDebit = 0
    /\ preConsumeCalls = 0
    /\ returnCalls = 0
    /\ dispatches = 0
    /\ processed = <<>>
    /\ responses = <<>>
    /\ retryLog = <<>>
    /\ ws = "nil"
    /\ stages = <<>>
    /\ requestBody = Consumed
    /\ Body = Consumed
    /\ sent = <<>>
    /\ flushed = FALSE
    /\ pending = {}
    /\ exit = ""

relay == <<handler, relayFormat, RetryTimes, specific_channel_id, channel_id,
           use_channel, pc, i, channel, newAPIError, taskErr, retryTimes,
           deferRefund, ShouldPreConsumedQuota, FinalPreConsumedQuota,
           userQuota, preDebit, preConsumeCalls, returnCalls, dispatches,
           processed, responses, retryLog, ws, stages, requestBody, Body,
           sent, flushed, pending, exit>>

\* a call of ApplyParamOverride with a body and an override map
RewriteInit ==
    /\ RelayIdle
    /\ ConvertIdle
    /\ LoggingIdle
    /\ jsonData \in Docs
    /\ \/ \E n \in 0 .. MaxOps : \E f \in [1 .. n -> 1 .. Len(OpMaps)] :
              paramOverride =
                  Obj([operations |-> Arr([k \in 1 .. n |-> OpMaps[f[k]]])])
       \/ \E k \in 1 .. Len(FlatMaps) : paramOverride = FlatMaps[k]
    /\ operations = <<>>
    /\ result = Empty
    /\ opIdx = 0
    /\ ok = TRUE
    /\ overrideErr = ""
    /\ ret = Empty
    /\ before = Empty
    /\ step = "ApplyParamOverride"

\* ApplyParamOverride up to the call of applyOperations: an empty map
\* returns the body, a parsed one starts applyOperations, any other is
\* merged by applyOperationsLegacy
ApplyParamOverride ==
    /\ step = "ApplyParamOverride"
    /\ LET parsed == tryParseOperations(paramOverride)
           legacy == applyOperationsLegacy(jsonData, paramOverride)
       IN IF DOMAIN paramOverride.v = {}
          THEN /\ ret' = jsonData
               /\ step' = "return"
               /\ UNCHANGED <<operations, result, overrideErr>>
          ELSE IF parsed.ok
          THEN /\ operations' = parsed.operations
               /\ result' = jsonData
               /\ step' = "applyOperations"
               /\ UNCHANGED <<ret, overrideErr>>
          ELSE /\ ret' = legacy.json
               /\ overrideErr' = legacy.err
               /\ step' = "return"
               /\ UNCHANGED <<operations, result>>
    /\ UNCHANGED <<convert, logging, relay, jsonData, paramOverride, opIdx, ok, before>>

\* the document an operation is checked against and applied to: the result
\* of the operations before it
GivenBody(body, current) == body
Given(body, current) == current

\* one pass of the loop of applyOperations
ApplyOperation ==
    /\ step = "applyOperations"
    /\ opIdx < Len(operations)
    /\ \E pass \in {applyOperation(Given(jsonData, result),
                                   operations[opIdx + 1])} :
          /\ before' = result
          /\ ok' = pass.ok
          /\ opIdx' = opIdx + 1
          /\ result' = pass.json
          /\ step' = AfterError(pass.err)
          /\ IF pass.err # ""
             THEN ret' = Empty /\ overrideErr' = pass.err
             ELSE UNCHANGED <<ret, overrideErr>>
    /\ UNCHANGED <<convert, logging, relay, jsonData, paramOverride, operations>>

\* the end of applyOperations: the document is returned
ReturnResult ==
    /\ step = "applyOperations"
    /\ opIdx = Len(operations)
    /\ ret' = result
    /\ overrideErr' = ""
    /\ step' = "return"
    /\ UNCHANGED <<convert, logging, relay, jsonData, paramOverride, operations, result, opIdx,
                   ok, before>>

RewriteNext == ApplyParamOverride \/ ApplyOperation \/ ReturnResult

RewriteSpec == RewriteInit /\ [][RewriteNext]_vars

\* ------------------------------------------------- claims on the override
\* the loop of applyOperations is past an operation; that operation, and
\* its map in the override
Past == step \in {"applyOperations", "return"} /\ opIdx > 0
LastOp == operations[opIdx]
LastOpMap == paramOverride.v["operations"].v[opIdx]

\* C21: an operation whose condition gate answered false without an error
\* leaves the document as it was given to it.
C21_SkippedLeavesDocument ==
    (Past /\ ~ok /\ overrideErr = "") => result = before

\* a gated "set b" was skipped and the program returned a body without b
C21_Witness ==
    /\ Past /\ ~ok /\ overrideErr = "" /\ step = "return"
    /\ LastOp.Mode = <<"set">> /\ LastOp.Path = <<"b">>
    /\ gjsonGet(ret, <<"b">>).t = "missing"

\* the condition compares values of incompatible types: an order comparison
\* with a side that is no number, or an equality of a number and a string
Incompatible(jsonStr, condition) ==
    LET value == gjsonGet(jsonStr,
                          processNegativeIndex(jsonStr, condition.Path))
    IN /\ value.t # "missing"
       /\ \/ /\ ToLower(condition.Mode) \in
                    {<<"gt">>, <<"gte">>, <<"lt">>, <<"lte">>}
             /\ value.t # "num" \/ condition.Value.t # "num"
          \/ /\ ToLower(condition.Mode) = <<"full">>
             /\ {value.t, condition.Value.t} = {"num", "str"}

\* C22: an operation gated by one condition of incompatible types, not
\* inverted, is skipped: no error, the document unchanged, the program goes
\* on.
C22_IncompatibleTypesAreFalse ==
    (/\ Past
     /\ Len(LastOp.Conditions) = 1
     /\ ~LastOp.Conditions[1].Invert
     /\ Incompatible(before, LastOp.Conditions[1]))
        => (overrideErr = "" /\ ~ok /\ result = before)

\* C23: the answer of a single condition whose path is missing is
\* pass_missing_key, flipped when invert is set.
C23_InvertFlipsMissingPath ==
    (/\ Past
     /\ overrideErr = ""
     /\ Len(LastOp.Conditions) = 1
     /\ gjsonGet(before, processNegativeIndex(
                     before, LastOp.Conditions[1].Path)).t = "missing")
        => ok = (LastOp.Conditions[1].PassMissingKey
                     # LastOp.Conditions[1].Invert)

\* C24: without conditions the gate passes; with logic AND (in any case) it
\* passes iff every condition passes; otherwise, and when the map names no
\* logic, it passes iff some condition passes.
C24_GateCombination ==
    (Past /\ overrideErr = "") =>
        LET conditions == LastOp.Conditions
            passes(k)  == checkSingleCondition(before, conditions[k]).result
            logic      == Field(LastOpMap, "logic")
        IN ok = IF Len(conditions) = 0 THEN TRUE
                ELSE IF logic.t = "str" /\ ToUpper(logic.v) = <<"AND">>
                THEN \A k \in 1 .. Len(conditions) : passes(k)
                ELSE \E k \in 1 .. Len(conditions) : passes(k)

\* a map without logic whose conditions disagree passed its gate
C24_Witness ==
    /\ Past /\ overrideErr = "" /\ ok
    /\ Field(LastOpMap, "logic").t = "missing"
    /\ \E k \in 1 .. Len(LastOp.Conditions) :
           ~checkSingleCondition(before, LastOp.Conditions[k]).result

\* the operation passes its gate and its execution errors: a move from a
\* missing path, a prepend or append on a missing or scalar non-string
\* target, an unknown mode
ExecutionErrors(jsonStr, op) ==
    LET gate   == checkConditions(jsonStr, op.Conditions, op.Logic)
        source == gjsonGet(jsonStr, processNegativeIndex(jsonStr, op.From))
        target == gjsonGet(jsonStr, processNegativeIndex(jsonStr, op.Path))
    IN /\ gate.err = "" /\ gate.result
       /\ \/ op.Mode = <<"move">> /\ source.t = "missing"
          \/ /\ op.Mode \in {<<"prepend">>, <<"append">>}
             /\ target.t \in {"missing", "num", "bool", "null"}
          \/ op.Mode \notin {<<"delete">>, <<"set">>, <<"move">>,
                             <<"prepend">>, <<"append">>}

\* C25: an operation whose execution errors ends the program: the override
\* returns the error and no body, and applies no later operation.
C25_ErrorAborts ==
    /\ (Past /\ ExecutionErrors(before, LastOp)) =>
           (overrideErr # "" /\ step = "return" /\ ret = Empty)
    /\ overrideErr # "" => (step = "return" /\ ret = Empty)

\* a move from a missing path ended a program that had an operation left
C25_Witness ==
    /\ Past /\ ExecutionErrors(before, LastOp)
    /\ LastOp.Mode = <<"move">>
    /\ opIdx < Len(operations)
    /\ step = "return" /\ overrideErr # ""

\* the program was two moves without conditions, the second the reverse of
\* the first, and it returned a body
MovedThereAndBack ==
    /\ step = "return" /\ overrideErr = ""
    /\ Len(operations) = 2
    /\ \A k \in 1 .. 2 : /\ operations[k].Mode = <<"move">>
                         /\ operations[k].Conditions = <<>>
    /\ operations[2].From = operations[1].To
    /\ operations[2].To = operations[1].From

\* the path is one key of the top-level object
TopLevelKey(path) ==
    Len(path) = 1 /\ ~IsNumeric(path[1]) /\ ~IsNegative(path[1])

\* C26 as stated: a move from a to b followed by a move from b to a returns
\* the original document, for every document and all paths.
C26_MoveRoundTripAnyPaths == MovedThereAndBack => ret = jsonData

\* C26: a move from a to b followed by a move from b to a returns the
\* original document when a and b are top-level keys and the document has
\* no b.
C26_MoveRoundTrip ==
    (/\ MovedThereAndBack
     /\ TopLevelKey(operations[1].From) /\ TopLevelKey(operations[1].To)
     /\ gjsonGet(jsonData, operations[1].To).t = "missing")
        => ret = jsonData

\* a was moved to an absent b and back
C26_Witness ==
    /\ MovedThereAndBack
    /\ operations[1].From = <<"a">> /\ operations[1].To = <<"b">>
    /\ gjsonGet(jsonData, <<"b">>).t = "missing"
    /\ gjsonGet(ret, <<"a">>).t # "missing"

\* the last operation was a set that passed its gate and did not fail
SetRan == Past /\ ok /\ overrideErr = "" /\ LastOp.Mode = <<"set">>

\* the value read at a path of the document, negative indexes resolved
ReadAt(jsonStr, path) == gjsonGet(jsonStr, processNegativeIndex(jsonStr, path))

ArrayOf(jsonStr, path) == gjsonGet(jsonStr, SubSeq(path, 1, Len(path) - 1))
NegativeInArray(jsonStr, path) ==
    /\ Len(path) > 1
    /\ IsNegative(path[Len(path)])
    /\ ArrayOf(jsonStr, path).t = "arr"
FromEnd(jsonStr, path) ==
    Len(ArrayOf(jsonStr, path).v) + Atoi(path[Len(path)])

\* C28: a set or delete at index -1 of an array acts on the element that is
\* last when the operation runs; an operation at an index -k beyond the
\* start of the array is skipped and leaves the document unchanged.
C28_NegativeIndex ==
    (Past /\ ok /\ NegativeInArray(before, LastOp.Path)) =>
        LET old == ArrayOf(before, LastOp.Path).v
            new == ArrayOf(result, LastOp.Path).v
        IN /\ (/\ LastOp.Path[Len(LastOp.Path)] = "-1" /\ Len(old) > 0
               /\ LastOp.Mode = <<"set">>)
                  => (/\ overrideErr = ""
                      /\ new = [old EXCEPT ![Len(old)] = LastOp.Value])
           /\ (/\ LastOp.Path[Len(LastOp.Path)] = "-1" /\ Len(old) > 0
               /\ LastOp.Mode = <<"delete">>)
                  => (overrideErr = "" /\ new = Front(old))
           /\ FromEnd(before, LastOp.Path) < 0
                  => (overrideErr = "" /\ result = before)

\* C29: an override whose "operations" is a list is run as operations and
\* its "operations" key never reaches the body; any other override is
\* merged into the top level of the body.
C29_StructuredIffOperationsList ==
    (step = "return" /\ overrideErr = "" /\ DOMAIN paramOverride.v # {}) =>
        IF Field(paramOverride, "operations").t = "arr"
        THEN gjsonGet(ret, <<"operations">>).t = "missing"
        ELSE ret = applyOperationsLegacy(jsonData, paramOverride).json

\* C30: a prepend or append of an object on an object target writes the
\* value's keys into it; with keep_origin every key the target has keeps
\* its value, a null one included; without it the value's keys win.
C30_MergeKeepsOrigin ==
    (/\ Past /\ ok /\ overrideErr = ""
     /\ LastOp.Mode \in {<<"prepend">>, <<"append">>}
     /\ LastOp.Value.t = "obj"
     /\ ReadAt(before, LastOp.Path).t = "obj")
        => LET old == ReadAt(before, LastOp.Path).v
               new == LastOp.Value.v
               now == ReadAt(result, LastOp.Path).v
           IN /\ DOMAIN now = DOMAIN old \cup DOMAIN new
              /\ \A k \in DOMAIN now :
                     now[k] = IF /\ k \in DOMAIN new
                                 /\ ~LastOp.KeepOrigin \/ k \notin DOMAIN old
                              THEN new[k] ELSE old[k]

\* the document after the first k operations, each applied to the document
\* the one before it produced
RECURSIVE InOrder(_, _)
InOrder(body, k) ==
    IF k = 0 THEN body
    ELSE applyOperation(InOrder(body, k - 1), operations[k]).json

\* C32: the operations run in list order, each checked against and applied
\* to the document the operations before it produced: while no operation
\* failed the document is the body folded through the operations passed,
\* and the last gate is the one of the document before the last operation.
C32_AppliedInOrder ==
    (Past /\ overrideErr = "") =>
        /\ result = InOrder(jsonData, opIdx)
        /\ before = InOrder(jsonData, opIdx - 1)
        /\ ok = checkConditions(before, LastOp.Conditions, LastOp.Logic).result

\* the second operation passed a gate that fails on the original body, or
\* resolved a negative index that the original body's array does not have
C32_Witness ==
    /\ Past /\ overrideErr = "" /\ opIdx = 2 /\ ok
    /\ before # jsonData
    /\ \/ /\ LastOp.Conditions # <<>>
          /\ ~checkConditions(jsonData, LastOp.Conditions, LastOp.Logic).result
       \/ /\ NegativeInArray(before, LastOp.Path)
          /\ FromEnd(before, LastOp.Path) >= 0
          /\ FromEnd(jsonData, LastOp.Path) < 0

\* ------------------------------------------- paths of several negative parts
\* bodies whose array n holds arrays, and paths into them
NestedDocs ==
    {Obj([n |-> Arr(n)]) :
        n \in {<<>>,
               <<Arr(<<Num(1)>>), Arr(<<Num(1), Num(2)>>)>>,
               <<Arr(<<Num(1), Num(2), Num(3)>>)>>,
               <<Num(1), Num(2), Arr(<<Num(4)>>)>>,
               <<Arr(<<Num(1), Num(2)>>), Arr(<<Num(3)>>)>>,
               <<Obj([s |-> Arr(<<Num(1), Num(2)>>)])>>}}
NestedPaths ==
    {<<"n", "-1">>, <<"n", "-1", "-1">>, <<"n", "-1", "-2">>,
     <<"n", "-2", "-1">>, <<"n", "-1", "s", "-1">>, <<"n", "0", "-1">>}

\* a call of ApplyParamOverride with one set at a path of negative parts
IndexInit ==
    /\ RelayIdle
    /\ ConvertIdle
    /\ LoggingIdle
    /\ jsonData \in NestedDocs
    /\ \E path \in NestedPaths :
           paramOverride = Obj([operations |-> Arr(<<Set(path, Num(5))>>)])
    /\ operations = <<>>
    /\ result = Empty
    /\ opIdx = 0
    /\ ok = TRUE
    /\ overrideErr = ""
    /\ ret = Empty
    /\ before = Empty
    /\ step = "ApplyParamOverride"

IndexSpec == IndexInit /\ [][RewriteNext]_vars

\* the first k parts of a path, each negative part replaced by the index it
\* names in the array at the parts before it, themselves so replaced, when
\* that is an index of the array
RECURSIVE OwnPrefix(_, _, _)
OwnPrefix(jsonStr, path, k) ==
    IF k = 0 THEN <<>>
    ELSE LET prefix == OwnPrefix(jsonStr, path, k - 1)
             array  == IF prefix = <<>> THEN Missing
                       ELSE Walk(jsonStr, prefix)
         IN IF /\ k > 1 /\ IsNegative(path[k]) /\ array.t = "arr"
               /\ Len(array.v) + Atoi(path[k]) >= 0
            THEN Append(prefix, Itoa(Len(array.v) + Atoi(path[k])))
            ELSE Append(prefix, path[k])

\* C36: processNegativeIndex replaces every negative part that is in range
\* of the array at its own prefix by the index it names there, also in a
\* path of several negative parts; what it resolves is an index of that
\* array.
C36_EachIndexAgainstOwnArray ==
    Past => processNegativeIndex(before, LastOp.Path)
                = OwnPrefix(before, LastOp.Path, Len(LastOp.Path))

\* ------------------------------------------ selector failure on a retry
\* Relay ended with an error at the head of attempt i >= 1: every attempt
\* before it was dispatched, and the loop was not exhausted
SelectorFailedOnRetry ==
    /\ handler = "Relay" /\ pc = "done" /\ exit = "error"
    /\ i >= 1 /\ i <= RetryTimes /\ dispatches = i

\* C33: when the selection of a retry attempt (index >= 1) fails, the one
\* error response is built from the selector's GetChannelFailed error, not
\* from the error of the attempt before; processChannelError was called for
\* the dispatched attempts only, use_channel holds the dispatched channels
\* only, and an amount that was pre-consumed is refunded.
C33_SelectorErrorReplacesUpstream ==
    SelectorFailedOnRetry =>
        /\ newAPIError = NewError("get_channel_failed", TRUE)
        /\ responses = <<ErrorResponse(NewError("get_channel_failed", TRUE))>>
        /\ Len(processed) = i
        /\ Len(use_channel) = i
        /\ preDebit # 0 =>
             /\ returnCalls = 1
             /\ FinalPreConsumedQuota = 0

C33_Witness ==
    /\ SelectorFailedOnRetry
    /\ i = 1 /\ RetryTimes = MaxRetryTimes
    /\ preDebit # 0 /\ returnCalls = 1
    /\ responses[1].code = "get_channel_failed"
    /\ Len(processed) = 1 /\ Len(use_channel) = 1

\* ------------------------------------------------- the adaptors' conversions
\* a conversion's return: the request and the info as it leaves them, the
\* body ("nil": a nil body) and the error ("": a nil error)
Converted(r, inf, body, err) ==
    [request |-> r, info |-> inf, body |-> body, err |-> err]

\* oaiImage2Ali(request), oaiFormEdit2AliImageEdit(c, info, request): the
\* image body, or an error
oaiImage2Ali == {[body |-> "aliImage", err |-> ""],
                 [body |-> "nil", err |-> "invalid image request"]}

\* package ali
aliConvertGeminiRequest(r, inf) ==
    {Converted(r, inf, "nil", "not implemented")}

aliConvertClaudeRequest(r, inf) == {Converted(r, inf, "req", "")}

\* a conversion that leaves enable_thinking as the request has it
aliNoThinkingReset(r, streaming) == r

\* if !info.IsStream { request.EnableThinking = false }
aliThinkingReset(r, streaming) ==
    IF ~streaming THEN [r EXCEPT !.EnableThinking = FALSE] ELSE r

aliConvertOpenAIRequest(r, inf) ==
    IF r.nil THEN {Converted(r, inf, "nil", "request is nil")}
    ELSE LET thinking == Contains(r.Model, <<"thinking">>)
             forced   == IF thinking
                         THEN [r EXCEPT !.EnableThinking = TRUE,
                                        !.Stream = TRUE]
                         ELSE r
             stream   == IF thinking THEN TRUE ELSE inf.IsStream
         IN  {Converted(aliThinkingReset(forced, stream),
                        [inf EXCEPT !.IsStream = stream], "aliReq", "")}

aliConvertImageRequest(r, inf) ==
    IF inf.RelayMode \in {"ImagesGenerations", "ImagesEdits"}
    THEN {Converted(r, inf, o.body,
                    IF o.err = "" THEN ""
                    ELSE "convert image request failed") : o \in oaiImage2Ali}
    ELSE {Converted(r, inf, "nil", "unsupported image relay mode")}

aliConvertRerankRequest(r, inf) == {Converted(r, inf, "aliRerank", "")}

aliConvertEmbeddingRequest(r, inf) == {Converted(r, inf, "req", "")}

aliConvertAudioRequest(r, inf) ==
    {Converted(r, inf, "nil", "not implemented")}

aliConvertOpenAIResponsesRequest(r, inf) ==
    {Converted(r, inf, "nil", "not implemented")}

\* package zhipu_4v
zhipuConvertGeminiRequest(r, inf) ==
    {Converted(r, inf, "nil", "not implemented")}

zhipuConvertClaudeRequest(r, inf) == {Converted(r, inf, "req", "")}

zhipuConvertAudioRequest(r, inf) ==
    {Converted(r, inf, "nil", "not implemented")}

zhipuConvertImageRequest(r, inf) ==
    {Converted(r, inf, "nil", "not implemented")}

\* top_p in hundredths: if request.TopP >= 1 { request.TopP = 0.99 }
zhipuConvertOpenAIRequest(r, inf) ==
    IF r.nil THEN {Converted(r, inf, "nil", "request is nil")}
    ELSE {Converted(IF r.TopP >= 100 THEN [r EXCEPT !.TopP = 99] ELSE r,
                    inf, "zhipuReq", "")}

\* return nil, nil
zhipuConvertRerankRequest(r, inf) == {Converted(r, inf, "nil", "")}

zhipuConvertEmbeddingRequest(r, inf) == {Converted(r, inf, "req", "")}

zhipuConvertOpenAIResponsesRequest(r, inf) ==
    {Converted(r, inf, "nil", "not implemented")}

\* the channel.Adaptor interface: the method of the provider's adaptor
Adaptor(p, method, r, inf) ==
    IF p = "ali"
    THEN CASE method = "ConvertGeminiRequest" -> aliConvertGeminiRequest(r, inf)
           [] method = "ConvertClaudeRequest" -> aliConvertClaudeRequest(r, inf)
           [] method = "ConvertOpenAIRequest" -> aliConvertOpenAIRequest(r, inf)
           [] method = "ConvertImageRequest" -> aliConvertImageRequest(r, inf)
           [] method = "ConvertRerankRequest" -> aliConvertRerankRequest(r, inf)
           [] method = "ConvertEmbeddingRequest" ->
                  aliConvertEmbeddingRequest(r, inf)
           [] method = "ConvertAudioRequest" -> aliConvertAudioRequest(r, inf)
           [] method = "ConvertOpenAIResponsesRequest" ->
                  aliConvertOpenAIResponsesRequest(r, inf)
    ELSE CASE method = "ConvertGeminiRequest" ->
                  zhipuConvertGeminiRequest(r, inf)
           [] method = "ConvertClaudeRequest" ->
                  zhipuConvertClaudeRequest(r, inf)
           [] method = "ConvertOpenAIRequest" ->
                  zhipuConvertOpenAIRequest(r, inf)
           [] method = "ConvertImageRequest" ->
                  zhipuConvertImageRequest(r, inf)
           [] method = "ConvertRerankRequest" ->
                  zhipuConvertRerankRequest(r, inf)
           [] method = "ConvertEmbeddingRequest" ->
                  zhipuConvertEmbeddingRequest(r, inf)
           [] method = "ConvertAudioRequest" ->
                  zhipuConvertAudioRequest(r, inf)
           [] method = "ConvertOpenAIResponsesRequest" ->
                  zhipuConvertOpenAIResponsesRequest(r, inf)

Methods ==
    {"ConvertGeminiRequest", "ConvertClaudeRequest", "ConvertOpenAIRequest",
     "ConvertImageRequest", "ConvertRerankRequest", "ConvertEmbeddingRequest",
     "ConvertAudioRequest", "ConvertOpenAIResponsesRequest"}

\* model names, as their parts
Models == {<<"qwen", "-", "plus">>, <<"qwen3", "-", "thinking">>,
           <<"thinking", "-", "2507">>, <<"qwen", "-", "think">>}

Requests ==
    [nil : {FALSE}, Model : Models, Stream : BOOLEAN,
     EnableThinking : BOOLEAN, TopP : {50, 100}]

\* a call of one conversion of one adaptor
ConvertInit ==
    /\ RelayIdle
    /\ LoggingIdle
    /\ jsonData = Empty
    /\ paramOverride = Obj(<<>>)
    /\ operations = <<>>
    /\ result = Empty
    /\ opIdx = 0
    /\ ok = TRUE
    /\ overrideErr = ""
    /\ ret = Empty
    /\ before = Empty
    /\ step = "idle"
    /\ provider \in {"ali", "zhipu_4v"}
    /\ conversion \in Methods
    /\ request \in Requests \cup
           \* the methods that take the request as a pointer
           (IF conversion \in {"ConvertGeminiRequest", "ConvertClaudeRequest",
                               "ConvertOpenAIRequest"}
            THEN {NilRequest} ELSE {})
    /\ info \in [IsStream : BOOLEAN,
                  RelayMode : {"ChatCompletions", "ImagesGenerations",
                               "ImagesEdits"}]
    /\ converted = [body |-> "", err |-> ""]
    /\ convertPc = "call"

\* the conversion runs and returns
Convert ==
    /\ convertPc = "call"
    /\ \E r \in Adaptor(provider, conversion, request, info) :
         /\ request' = r.request
         /\ info' = r.info
         /\ converted' = [body |-> r.body, err |-> r.err]
    /\ convertPc' = "returned"
    /\ UNCHANGED <<relay, override, logging, provider, conversion>>

ConvertSpec == ConvertInit /\ [][Convert]_vars

\* C31: a conversion among Gemini, audio, image, rerank and responses that
\* gives no body returns a non-nil error, for both adaptors: never a nil
\* body together with a nil error.
C31_NoBodyMeansError ==
    (convertPc = "returned"
       /\ conversion \in {"ConvertGeminiRequest", "ConvertAudioRequest",
                          "ConvertImageRequest", "ConvertRerankRequest",
                          "ConvertOpenAIResponsesRequest"}
       /\ converted.body = "nil") =>
        converted.err # ""

\* the model's name contained "thinking"
ThinkingModel == Contains(request.Model, <<"thinking">>)

\* ConvertOpenAIRequest of package ali returned a body
AliConverted ==
    /\ convertPc = "returned" /\ provider = "ali"
    /\ conversion = "ConvertOpenAIRequest" /\ converted.err = ""

\* C35: after a successful ConvertOpenAIRequest of the Ali adaptor,
\* request.EnableThinking implies info.IsStream; a model whose name contains
\* "thinking" leaves with EnableThinking, request.Stream and info.IsStream
\* all true, and a call that leaves with info.IsStream false leaves with
\* EnableThinking false.
C35_ThinkingImpliesStream ==
    AliConverted =>
        /\ request.EnableThinking => info.IsStream
        /\ ThinkingModel =>
             request.EnableThinking /\ request.Stream /\ info.IsStream
        /\ ~info.IsStream => ~request.EnableThinking

C35_Witness ==
    /\ AliConverted
    /\ ThinkingModel /\ request.EnableThinking /\ info.IsStream

\* ------------------------------------------------------ LoggingTransport
\* the calls of Close that are followed on one response body
MaxCloses == 3

\* the response body the underlying transport delivers, in the reads it takes
ResBody == <<"r1", "r2">>

\* a call of RoundTrip: the request's path, and its body (none, one that is
\* read to its end, or one whose read fails)
LoggingInit ==
    /\ RelayIdle
    /\ ConvertIdle
    /\ jsonData = Empty
    /\ paramOverride = Obj(<<>>)
    /\ operations = <<>>
    /\ result = Empty
    /\ opIdx = 0
    /\ ok = TRUE
    /\ overrideErr = ""
    /\ ret = Empty
    /\ before = Empty
    /\ step = "idle"
    /\ req \in [Path : {"/v1/chat/completions", "/v1/embeddings"},
                Body : {"nil", "b1", "unreadable"}]
    /\ apiLog = [Req |-> "", Res |-> <<>>, Err |-> ""]
    /\ resp = "none"
    /\ buf = <<>>
    /\ closed = FALSE
    /\ closeCalls = 0
    /\ posted = <<>>
    /\ api_log = <<>>
    /\ forwarded = 0
    /\ logPc = "RoundTrip"

\* PostProcess(l): a goroutine is started that will store the record
PostProcess(l) == posted' = Append(posted, l)

\* RoundTrip: another path goes to the underlying transport as it is; on the
\* target path the request body is read and put back, the request is sent,
\* and the response body is wrapped ("rc"); an error returns no response
RoundTrip ==
    /\ logPc = "RoundTrip"
    /\ logPc' = "returned"
    /\ IF req.Path # "/v1/chat/completions"
       THEN /\ forwarded' = forwarded + 1
            /\ resp' \in {"plain", "nil"}
            /\ UNCHANGED <<req, apiLog, posted>>
       ELSE IF req.Body = "unreadable"
       THEN /\ apiLog' = [apiLog EXCEPT !.Err = "read error"]
            /\ PostProcess(apiLog')
            /\ resp' = "nil"
            /\ req' = [req EXCEPT !.Body = ""]
            /\ UNCHANGED forwarded
       ELSE /\ forwarded' = forwarded + 1
            /\ UNCHANGED req
            /\ \E l \in {[apiLog EXCEPT
                            !.Req = IF req.Body = "nil" THEN "" ELSE req.Body]} :
                 \/ /\ apiLog' = [l EXCEPT !.Err = "transport error"]
                    /\ PostProcess(apiLog')
                    /\ resp' = "nil"
                 \/ /\ apiLog' = l
                    /\ resp' = "rc"
                    /\ UNCHANGED posted
    /\ UNCHANGED <<relay, override, convert, buf, closed, closeCalls,
                   api_log>>

\* the caller reads from the response body: the TeeReader copies what is
\* read into buf
Read ==
    /\ logPc = "returned"
    /\ resp = "rc"
    /\ Len(buf) < Len(ResBody)
    /\ buf' = Append(buf, ResBody[Len(buf) + 1])
    /\ UNCHANGED <<relay, override, convert, req, apiLog, resp, closed,
                   closeCalls, posted, api_log, forwarded, logPc>>

\* a Close that runs closeFunc every time
ClosableAlways(closeFunc, done) == closeFunc

\* rc.closeFunc != nil && !rc.closed
Closable(closeFunc, done) == closeFunc /\ ~done

\* the caller closes the response body: rc.Close on the wrapped body, whose
\* closeFunc takes l.Res from buf and calls PostProcess; the transport's own
\* body otherwise
Close ==
    /\ logPc = "returned"
    /\ resp \in {"rc", "plain"}
    /\ closeCalls < MaxCloses
    /\ closeCalls' = closeCalls + 1
    /\ IF resp = "rc" /\ Closable(TRUE, closed)
       THEN /\ closed' = TRUE
            /\ apiLog' = [apiLog EXCEPT !.Res = buf]
            /\ PostProcess(apiLog')
       ELSE UNCHANGED <<closed, apiLog, posted>>
    /\ UNCHANGED <<relay, override, convert, req, resp, buf, api_log,
                   forwarded, logPc>>

\* a goroutine of PostProcess runs: DB.Table("api_log").Create(l), which
\* stores the row or fails
Create ==
    /\ Len(api_log) < Len(posted)
    /\ \E stored \in BOOLEAN :
         api_log' = Append(api_log,
                       [l |-> posted[Len(api_log) + 1], stored |-> stored])
    /\ UNCHANGED <<relay, override, convert, req, apiLog, resp, buf, closed,
                   closeCalls, posted, forwarded, logPc>>

LoggingNext == RoundTrip \/ Read \/ Close \/ Create

LoggingSpec == LoggingInit /\ [][LoggingNext]_vars

\* C34: an intercepted request (path /v1/chat/completions) has at most one
\* record posted: one on a read error of the request body or an error of
\* the transport, or one when the response body is closed, however many
\* times Close is called in sequence; a request to another path goes to the
\* underlying transport and posts no record.
C34_AtMostOneRecord ==
    /\ Len(posted) <= 1
    /\ Len(api_log) <= Len(posted)
    /\ req.Path # "/v1/chat/completions" =>
         /\ posted = <<>>
         /\ logPc = "returned" => forwarded = 1 /\ resp \in {"plain", "nil"}
    /\ (req.Path = "/v1/chat/completions" /\ resp = "nil") =>
         Len(posted) = 1 /\ posted[1].Err # ""
    /\ (resp = "rc" /\ closeCalls = 0) => posted = <<>>
    /\ (resp = "rc" /\ closeCalls >= 1) =>
         Len(posted) = 1 /\ posted[1].Err = ""

C34_Witness ==
    /\ resp = "rc" /\ closeCalls >= 2
    /\ Len(posted) = 1 /\ posted[1].Res = ResBody /\ Len(api_log) = 1

============================================================================
